---- MODULE Spec2Model ----
(***************************************************************************)
(* A model of gotel: the instrument registry and metric primitives of      *)
(* pkg/metrics (metrics.go) and the asynchronous delivery pipeline of the  *)
(* GoTel client (gotel.go).                                                *)
(*                                                                         *)
(* The module holds four state machines over disjoint variables:           *)
(*   SpecKey       metricKey as a pure function of (name, labels)          *)
(*   SpecRegistry  registry.GetOrCreate{Counter,Gauge,Histogram} / Close   *)
(*   SpecCounter   Counter.Add / Inc under the counter's mutex             *)
(*   Spec          GoTel: SendMetricsAsync, SendMetricsSync, metricsWorker,*)
(*                 the fallback pool, sendMetricsWithRateLimit, Close      *)
(***************************************************************************)
EXTENDS Integers, Sequences, FiniteSets, TLC

VARIABLES
    \* ---- metricKey ----
    keyIn,          \* arguments of the latest metricKey call
    keyOut,         \* its result
    keyPrevIn,      \* arguments of the call before it
    keyPrevOut,     \* and its result
    keyCalls,       \* number of metricKey calls made (0, 1, 2 = two or more)
    \* ---- registry ----
    counters,       \* registry.counters   : key -> primitive
    gauges,         \* registry.gauges     : key -> primitive
    histograms,     \* registry.histograms : key -> primitive
    regMutex,       \* registry.mutex (sync.RWMutex): readers and writer
    prims,          \* every primitive object allocated so far
    rPc,            \* position of each goroutine inside its registry call
    rArgs,          \* arguments of each goroutine's current / last call
    rKey,           \* key computed by the call (metricKey result)
    rRet,           \* what the call returned
    rEff,           \* what the call did: exporter calls, map writes
    closeCalls,     \* registry.Close calls that cleared the maps
    callsLeft,      \* registry calls still to be issued
    otelClient,     \* registry.otelClient: Nil or the exporter client
    \* ---- one Counter ----
    value,          \* Counter.value
    otelCounter,    \* Counter.otelCounter: Nil or the exporter handle
    cMutex,         \* Counter.mutex: Nil or the goroutine holding it
    cPc,            \* position of each goroutine inside Counter.Add
    cDelta,         \* delta of the goroutine's current / last Add
    cReg,           \* value read by the goroutine (c.value += delta is a read and a write)
    cNew,           \* newValue, the value Add returns
    otelAdds,       \* the exporter's Add calls (delta, labels), in order
    cInit,          \* the counter's value at construction
    cSum,           \* sum of the deltas of all Add calls issued
    addsLeft,       \* Add calls still to be issued
    cRets,          \* the values the Add calls returned, in order of return
    \* ---- one Gauge ----
    gValue,         \* Gauge.value
    otelGauge,      \* Gauge.otelGauge: Nil or the exporter handle
    gMutex,         \* Gauge.mutex: Nil or the goroutine holding it
    gPc,            \* position of each goroutine inside Gauge.Set / Gauge.Add
    gArg,           \* the goroutine's current / last call: method and argument
    otelSets,       \* the exporter's Set calls (value, labels), in order
    gLog,           \* the mutations in order: method, argument, value before and after
    gOpsLeft,       \* gauge calls still to be issued
    \* ---- one Histogram ----
    otelHistogram,  \* Histogram.otelHistogram: Nil or the exporter handle
    hMutex,         \* Histogram.mutex: Nil or the goroutine holding it
    hPc,            \* position of each goroutine inside Histogram.Record
    hArg,           \* value of the goroutine's current / last Record
    otelRecords,    \* the exporter's Record calls (value, labels), in order
    hOpsLeft,       \* Record calls still to be issued
    \* ---- the GoTel client ----
    cfgAsync,       \* config.EnableAsyncMetrics
    metricsChan,    \* number of signals queued on GoTel.metricsChan
    poolWaiting,    \* pool tasks started and waiting for metricsMutex
    poolClosed,     \* GoTel.pool has been released
    metricsMutex,   \* GoTel.metricsMutex: Nil or the process holding it
    lastMetricsSent,\* GoTel.lastMetricsSent
    droppedRequests,\* GoTel.droppedRequests
    ctxDone,        \* GoTel.ctx has been cancelled
    tickerC,        \* a tick is pending on the worker's ticker channel
    now,            \* the clock, time.Now()
    pc,             \* position of each caller, of the worker and of Close
    aErr,           \* what SendMetricsSync returned to a caller
    arr,            \* when the process's current flush trigger was raised
    wFinal,         \* the worker is in its final flush (ctx.Done branch)
    sendsLeft,      \* SendMetricsAsync calls still to be issued 
    poolRejected,   \* pool.Submit calls that returned an error
    flushCalls,     \* the exporter's ForceFlush calls so far
    flushArrs,      \* when the triggers that called ForceFlush were raised (pool tasks apart)
    otelClosed,     \* the exporter's Close has been called
    lastSend,       \* how the latest rate-limited send ended: skipped, flushed, failed
    sigPending,     \* history: a signal was queued since the worker's latest
                    \* sendMetricsWithRateLimit call
    \* ---- New ----
    cfgBufferSize,  \* cfg.MetricBufferSize as passed to New
    poolCap,        \* capacity of the pool New built (0: no pool)
    newPc,          \* position inside New: validate, pool, done, error
    \* ---- the HTTP server example ----
    srvLast,        \* Server.lastMetricsSent
    srvPc,          \* position of each goroutine inside Server.sendMetricsSync
    srvSince,       \* timeSinceLastSend as read by the goroutine
    srvNow,         \* the clock of the example
    srvSent,        \* SendMetrics calls of the Prometheus client so far
    srvCalls        \* sendMetricsSync calls still to be issued

keyVars == <<keyIn, keyOut, keyPrevIn, keyPrevOut, keyCalls>>
regVars == <<counters, gauges, histograms, regMutex, prims, rPc, rArgs, rKey,
             rRet, rEff, closeCalls, callsLeft, otelClient>>
cntVars == <<value, otelCounter, cMutex, cPc, cDelta, cReg, cNew, otelAdds, cInit,
             cSum, addsLeft, cRets>>
pipeVars == <<cfgAsync, metricsChan, poolWaiting, poolClosed, metricsMutex,
              lastMetricsSent, droppedRequests, ctxDone, tickerC, now, pc, aErr, arr,
              wFinal, sendsLeft, poolRejected, flushCalls, flushArrs, otelClosed,
              lastSend, sigPending>>
gaugeVars == <<gValue, otelGauge, gMutex, gPc, gArg, otelSets, gLog, gOpsLeft>>
histVars == <<otelHistogram, hMutex, hPc, hArg, otelRecords, hOpsLeft>>
newVars == <<cfgBufferSize, poolCap, newPc>>
srvVars == <<srvLast, srvPc, srvSince, srvNow, srvSent, srvCalls>>
vars == <<keyVars, regVars, cntVars, gaugeVars, histVars, pipeVars, newVars, srvVars>>

Nil == 0

(***************************************************************************)
(* metricKey (metrics.go:300-317).  Labels are a map[string]string: a      *)
(* function from a finite set of strings to strings.  The loop ranges over *)
(* the map; Go leaves the iteration order of a map unspecified, so the     *)
(* order is an input of the computation.                                   *)
(***************************************************************************)
NoLabels == [k \in {} |-> ""]

IterationOrders(labels) ==
    {ord \in [1..Cardinality(DOMAIN labels) -> DOMAIN labels] :
        \A i, j \in DOMAIN ord : i # j => ord[i] # ord[j]}

RECURSIVE KeyLoop(_, _, _, _)
KeyLoop(key, labels, ord, i) ==
    IF i > Len(ord) THEN key
    ELSE KeyLoop(key \o (IF i > 1 THEN "," ELSE "")
                     \o ord[i] \o "=" \o labels[ord[i]],
                 labels, ord, i + 1)

\* the key the loop builds when the map is ranged over in order ord
metricKeyOrdered(name, labels, ord) ==
    IF Cardinality(DOMAIN labels) = 0 THEN name
    ELSE KeyLoop(name \o "{", labels, ord, 1) \o "}"

\* every key a call metricKey(name, labels) can return
metricKey(name, labels) ==
    {metricKeyOrdered(name, labels, ord) : ord \in IterationOrders(labels)}

\* ---- inputs of the metricKey state machine ----
KeyNames == {"n", "m"}
LabelKeyOrder == <<"b", "d">>          \* the label keys, in sorted order
LabelKeys == {LabelKeyOrder[i] : i \in DOMAIN LabelKeyOrder}
LabelValues == {"c", "e", "c,d=e"}
KeyLabelMaps == UNION {[D -> LabelValues] : D \in SUBSET LabelKeys}

\* the canonical form of the specification: name{k1=v1,...}, keys sorted
SortedOrder(labels) ==
    CHOOSE ord \in IterationOrders(labels) :
        \A i, j \in DOMAIN ord :
            i < j => \E a, b \in DOMAIN LabelKeyOrder :
                        /\ LabelKeyOrder[a] = ord[i]
                        /\ LabelKeyOrder[b] = ord[j]
                        /\ a < b
CanonicalKey(name, labels) == metricKeyOrdered(name, labels, SortedOrder(labels))

InitKey ==
    /\ keyIn = [name |-> "", labels |-> NoLabels]
    /\ keyOut = ""
    /\ keyPrevIn = [name |-> "", labels |-> NoLabels]
    /\ keyPrevOut = ""
    /\ keyCalls = 0

\* one call of metricKey(name, labels)
MetricKeyCall(name, labels) ==
    \E key \in metricKey(name, labels) :
        /\ keyPrevIn' = keyIn
        /\ keyPrevOut' = keyOut
        /\ keyIn' = [name |-> name, labels |-> labels]
        /\ keyOut' = key
        /\ keyCalls' = IF keyCalls < 2 THEN keyCalls + 1 ELSE 2
        /\ UNCHANGED <<regVars, cntVars, gaugeVars, histVars, pipeVars, newVars, srvVars>>

NextKey ==
    \E name \in KeyNames, labels \in KeyLabelMaps : MetricKeyCall(name, labels)

(***************************************************************************)
(* The registry (metrics.go:62-231).                                       *)
(***************************************************************************)
NumGoroutines == 2                      \* goroutines calling the registry
MaxCalls == 2                           \* registry calls issued in a run
MaxBuckets == 20                        \* metrics.go:174
Goroutines == 1..NumGoroutines

Kinds == {"counter", "gauge", "histogram"}
RegNames == {"n"}
RegUnits == {"requests"}
RegLabelMaps == {NoLabels, [k \in {"b", "d"} |-> "c"]}
BucketLens == {MaxBuckets, MaxBuckets + 1}

NoArgs == [op |-> "none", name |-> "", unit |-> "", labels |-> NoLabels, buckets |-> 0]
NoRet == [done |-> FALSE, prim |-> Nil, err |-> "nil"]
NoEff == [creates |-> 0, inserts |-> 0, missed |-> FALSE, closes |-> 0]

Exporter == 1                           \* a client.OTelClient that is not nil

\* a new registry (NewRegistry) given one of the clients C, and n calls to issue
InitRegistryOf(C, n) ==
    /\ otelClient \in C
    /\ counters = NoLabels              \* make(map[string]*Counter)
    /\ gauges = NoLabels
    /\ histograms = NoLabels
    /\ regMutex = [readers |-> 0, writer |-> FALSE]
    /\ prims = <<>>
    /\ rPc = [g \in Goroutines |-> "idle"]
    /\ rArgs = [g \in Goroutines |-> NoArgs]
    /\ rKey = [g \in Goroutines |-> ""]
    /\ rRet = [g \in Goroutines |-> NoRet]
    /\ rEff = [g \in Goroutines |-> NoEff]
    /\ closeCalls = 0
    /\ callsLeft = n

\* NewRegistry(otelClient, ctx) with an exporter client
InitRegistryIn(n) == InitRegistryOf({Exporter}, n)

InitRegistry == InitRegistryIn(MaxCalls)

\* what no registry operation touches
RegFrame ==
    UNCHANGED <<keyVars, cntVars, gaugeVars, histVars, pipeVars, newVars, srvVars, otelClient>>

RegMapShared(kind) == counters

\* the map of one kind
RegMap(kind) ==
    CASE kind = "counter" -> counters
      [] kind = "gauge" -> gauges
      [] kind = "histogram" -> histograms

Put(m, k, v) == [x \in DOMAIN m \cup {k} |-> IF x = k THEN v ELSE m[x]]

\* r.<kind>s[key] = prim
Install(kind, key, prim) ==
    /\ counters' = IF kind = "counter" THEN Put(counters, key, prim) ELSE counters
    /\ gauges' = IF kind = "gauge" THEN Put(gauges, key, prim) ELSE gauges
    /\ histograms' = IF kind = "histogram" THEN Put(histograms, key, prim) ELSE histograms

\* return prim, err (the call's local key goes with its frame)
Return(g, prim, err) ==
    /\ rRet' = [rRet EXCEPT ![g] = [done |-> TRUE, prim |-> prim, err |-> err]]
    /\ rKey' = [rKey EXCEPT ![g] = ""]
    /\ rPc' = [rPc EXCEPT ![g] = "idle"]

UnlockSkipped == UNCHANGED regMutex

\* r.mutex.Unlock(), deferred
Unlock == regMutex' = [regMutex EXCEPT !.writer = FALSE]

TooManyBucketsOffByOne(n) == n > MaxBuckets + 1

TooManyBucketsAtLimit(n) == n >= MaxBuckets

\* if len(buckets) > 20
TooManyBuckets(n) == n > MaxBuckets

\* entry of GetOrCreateCounter / Gauge / Histogram: the bucket guard of the
\* histogram, then key := metricKey(name, labels)
GetOrCreate(g, kind, name, unit, labels, n) ==
    /\ RegFrame
    /\ rPc[g] = "idle"
    /\ callsLeft > 0
    /\ callsLeft' = callsLeft - 1
    /\ rArgs' = [rArgs EXCEPT ![g] = [op |-> kind, name |-> name, unit |-> unit,
                                       labels |-> labels, buckets |-> n]]
    /\ rEff' = [rEff EXCEPT ![g] = NoEff]
    /\ IF kind = "histogram" /\ TooManyBuckets(n)
       THEN Return(g, Nil, "ErrHistBucketSizeTooLarge")
       ELSE /\ \E key \in metricKey(name, labels) : rKey' = [rKey EXCEPT ![g] = key]
            /\ rRet' = [rRet EXCEPT ![g] = NoRet]
            /\ rPc' = [rPc EXCEPT ![g] = "rlock"]
    /\ UNCHANGED <<counters, gauges, histograms, regMutex, prims, closeCalls>>

ExistsWithUnit(g) ==
    /\ rKey[g] \in DOMAIN RegMap(rArgs[g].op)
    /\ prims[RegMap(rArgs[g].op)[rKey[g]]].unit = rArgs[g].unit

\* if counter, exists := r.counters[key]; exists
Exists(g) == rKey[g] \in DOMAIN RegMap(rArgs[g].op)

\* r.mutex.RLock()
RLock(g) ==
    /\ RegFrame
    /\ rPc[g] = "rlock"
    /\ ~regMutex.writer
    /\ regMutex' = [regMutex EXCEPT !.readers = @ + 1]
    /\ rPc' = [rPc EXCEPT ![g] = "rcheck"]
    /\ UNCHANGED <<counters, gauges, histograms, prims, rArgs, rKey, rRet, rEff,
                   closeCalls, callsLeft>>

\* the lookup under the read lock, and r.mutex.RUnlock()
ReadCheck(g) ==
    /\ RegFrame
    /\ rPc[g] = "rcheck"
    /\ regMutex' = [regMutex EXCEPT !.readers = @ - 1]
    /\ IF Exists(g)
       THEN Return(g, RegMap(rArgs[g].op)[rKey[g]], "nil")
       ELSE /\ rPc' = [rPc EXCEPT ![g] = "lock"]
            /\ UNCHANGED <<rRet, rKey>>
    /\ UNCHANGED <<counters, gauges, histograms, prims, rArgs, rEff,
                   closeCalls, callsLeft>>

\* r.mutex.Lock()
Lock(g) ==
    /\ RegFrame
    /\ rPc[g] \in {"lock", "closelock"}
    /\ ~regMutex.writer
    /\ regMutex.readers = 0
    /\ regMutex' = [regMutex EXCEPT !.writer = TRUE]
    /\ rPc' = [rPc EXCEPT ![g] = IF rPc[g] = "lock" THEN "wcheck" ELSE "closing"]
    /\ UNCHANGED <<counters, gauges, histograms, prims, rArgs, rKey, rRet, rEff,
                   closeCalls, callsLeft>>

\* a variant without the second lookup
WriteCheckSkipped(g) ==
    /\ RegFrame
    /\ rPc[g] = "wcheck"
    /\ rPc' = [rPc EXCEPT ![g] = "create"]
    /\ rEff' = [rEff EXCEPT ![g].missed = TRUE]
    /\ UNCHANGED <<counters, gauges, histograms, regMutex, prims, rArgs, rKey, rRet,
                   closeCalls, callsLeft>>

\* "Check again after acquiring write lock"
WriteCheck(g) ==
    /\ RegFrame
    /\ rPc[g] = "wcheck"
    /\ IF Exists(g)
       THEN /\ Return(g, RegMap(rArgs[g].op)[rKey[g]], "nil")
            /\ Unlock
            /\ UNCHANGED rEff
       ELSE /\ rPc' = [rPc EXCEPT ![g] = "create"]
            /\ rEff' = [rEff EXCEPT ![g].missed = TRUE]
            /\ UNCHANGED <<rRet, rKey, regMutex>>
    /\ UNCHANGED <<counters, gauges, histograms, prims, rArgs,
                   closeCalls, callsLeft>>

\* a variant that installs a primitive without exporter handle on failure
CreateFailedDetached(g) ==
    /\ prims' = Append(prims, [kind |-> rArgs[g].op, name |-> rArgs[g].name,
                               unit |-> rArgs[g].unit, labels |-> rArgs[g].labels,
                               otel |-> Nil, value |-> 0])
    /\ Install(rArgs[g].op, rKey[g], Len(prims) + 1)
    /\ rEff' = [rEff EXCEPT ![g].creates = @ + 1, ![g].inserts = @ + 1]
    /\ Return(g, Len(prims) + 1, "nil")

\* if err != nil { return nil, ErrCreatingMetric }
CreateFailed(g) ==
    /\ Return(g, Nil, "ErrCreatingMetric")
    /\ rEff' = [rEff EXCEPT ![g].creates = @ + 1]
    /\ UNCHANGED <<counters, gauges, histograms, prims>>

\* primitives built earlier under the name and labels of g's call
BuiltBefore(g) ==
    {p \in DOMAIN prims : /\ prims[p].kind = rArgs[g].op
                          /\ prims[p].name = rArgs[g].name
                          /\ prims[p].labels = rArgs[g].labels}

\* a variant that hands out again a primitive built before Close
CreateReused(g) ==
    /\ IF BuiltBefore(g) # {}
       THEN /\ \E p \in BuiltBefore(g) :
                  /\ Install(rArgs[g].op, rKey[g], p)
                  /\ Return(g, p, "nil")
            /\ UNCHANGED prims
       ELSE /\ prims' = Append(prims, [kind |-> rArgs[g].op, name |-> rArgs[g].name,
                                       unit |-> rArgs[g].unit,
                                       labels |-> rArgs[g].labels,
                                       otel |-> Len(prims) + 1, value |-> 0])
            /\ Install(rArgs[g].op, rKey[g], Len(prims) + 1)
            /\ Return(g, Len(prims) + 1, "nil")
    /\ rEff' = [rEff EXCEPT ![g].creates = @ + 1, ![g].inserts = @ + 1]

\* the exporter returned a handle: build the primitive (value: 0 is the
\* value it starts with), store it, return it
CreateSucceeded(g) ==
    /\ prims' = Append(prims, [kind |-> rArgs[g].op, name |-> rArgs[g].name,
                               unit |-> rArgs[g].unit, labels |-> rArgs[g].labels,
                               otel |-> Len(prims) + 1, value |-> 0])
    /\ Install(rArgs[g].op, rKey[g], Len(prims) + 1)
    /\ rEff' = [rEff EXCEPT ![g].creates = @ + 1, ![g].inserts = @ + 1]
    /\ Return(g, Len(prims) + 1, "nil")

\* a variant in which the call on a nil client returns the error
CreatePanicsAsError(g) == CreateFailed(g)

\* the method call on a nil client.OTelClient: nil pointer dereference; the
\* call unwinds with the panic and returns nothing
CreatePanics(g) ==
    /\ rRet' = [rRet EXCEPT ![g] = [done |-> TRUE, prim |-> Nil, err |-> "panic"]]
    /\ rKey' = [rKey EXCEPT ![g] = ""]
    /\ rPc' = [rPc EXCEPT ![g] = "idle"]
    /\ UNCHANGED <<counters, gauges, histograms, prims, rEff>>

\* r.otelClient.Create<Kind>(name, unit) under the write lock, and what
\* follows; the deferred r.mutex.Unlock() runs on return and on panic
Create(g) ==
    /\ RegFrame
    /\ rPc[g] = "create"
    /\ IF otelClient = Nil
       THEN CreatePanics(g)
       ELSE \E ok \in BOOLEAN : IF ok THEN CreateSucceeded(g) ELSE CreateFailed(g)
    /\ Unlock
    /\ UNCHANGED <<rArgs, closeCalls, callsLeft>>

\* entry of registry.Close
Close(g) ==
    /\ RegFrame
    /\ rPc[g] = "idle"
    /\ callsLeft > 0
    /\ callsLeft' = callsLeft - 1
    /\ rArgs' = [rArgs EXCEPT ![g] = [NoArgs EXCEPT !.op = "close"]]
    /\ rEff' = [rEff EXCEPT ![g] = NoEff]
    /\ rRet' = [rRet EXCEPT ![g] = NoRet]
    /\ rPc' = [rPc EXCEPT ![g] = "closelock"]
    /\ UNCHANGED <<counters, gauges, histograms, regMutex, prims, rKey, closeCalls>>

\* if r.otelClient != nil, r.otelClient.Close() under the write lock; unless
\* it fails the maps are remade
CloseBody(g) ==
    /\ RegFrame
    /\ rPc[g] = "closing"
    /\ \E ok \in (IF otelClient = Nil THEN {TRUE} ELSE BOOLEAN) :
        IF ok
        THEN /\ counters' = NoLabels
             /\ gauges' = NoLabels
             /\ histograms' = NoLabels
             /\ closeCalls' = closeCalls + 1
             /\ Return(g, Nil, "nil")
        ELSE /\ Return(g, Nil, "ErrClose")
             /\ UNCHANGED <<counters, gauges, histograms, closeCalls>>
    /\ rEff' = [rEff EXCEPT ![g].closes = IF otelClient = Nil THEN @ ELSE @ + 1]
    /\ Unlock
    /\ UNCHANGED <<prims, rArgs, callsLeft>>

NextRegistry ==
    \E g \in Goroutines :
        \/ \E kind \in Kinds, name \in RegNames, unit \in RegUnits,
              labels \in RegLabelMaps :
                \E n \in (IF kind = "histogram" THEN BucketLens ELSE {0}) :
                    GetOrCreate(g, kind, name, unit, labels, n)
        \/ RLock(g)
        \/ ReadCheck(g)
        \/ Lock(g)
        \/ WriteCheck(g)
        \/ Create(g)
        \/ Close(g)
        \/ CloseBody(g)

\* the three kinds side by side: GetOrCreate calls by two goroutines for
\* one name without labels, with either unit and a bucket list within the
\* limit
KindCalls == 3                          \* registry calls issued in a run
KindUnits == {"requests", "bytes"}
KindBucketLens == {1, MaxBuckets}
KindCallers == {1, 2}
NextKinds ==
    \E g \in KindCallers :
        \/ \E kind \in Kinds, name \in RegNames, unit \in KindUnits :
              \E n \in (IF kind = "histogram" THEN KindBucketLens ELSE {0}) :
                  GetOrCreate(g, kind, name, unit, NoLabels, n)
        \/ RLock(g)
        \/ ReadCheck(g)
        \/ Lock(g)
        \/ WriteCheck(g)
        \/ Create(g)

\* the bucket limit: GetOrCreateHistogram calls by two goroutines for one
\* name without labels, with no buckets, 20 and 21
LimitBucketLens == {0, MaxBuckets, MaxBuckets + 1}
NextBuckets ==
    \E g \in KindCallers :
        \/ \E name \in RegNames, unit \in RegUnits, n \in LimitBucketLens :
              GetOrCreate(g, "histogram", name, unit, NoLabels, n)
        \/ RLock(g)
        \/ ReadCheck(g)
        \/ Lock(g)
        \/ WriteCheck(g)
        \/ Create(g)

\* a registry with or without an exporter client: GetOrCreate calls of the
\* three kinds and Close by two goroutines
NextClient ==
    \E g \in KindCallers :
        \/ \E kind \in Kinds, name \in RegNames, unit \in RegUnits :
              \E n \in (IF kind = "histogram" THEN BucketLens ELSE {0}) :
                  GetOrCreate(g, kind, name, unit, NoLabels, n)
        \/ RLock(g)
        \/ ReadCheck(g)
        \/ Lock(g)
        \/ WriteCheck(g)
        \/ Create(g)
        \/ Close(g)
        \/ CloseBody(g)

\* the primitives that hold the map passed by g's last call: the struct
\* literal stores labels: labels, the map itself and no copy of it, so the
\* primitive built by that call shares the map with the caller
SharesMap(g) ==
    IF rRet[g].done /\ rRet[g].err = "nil" /\ rEff[g].inserts = 1
    THEN {rRet[g].prim}
    ELSE {}

\* the caller writes labels[k] = v into the map it passed, after the call
\* has returned
MutateLabels(g, k, v) ==
    /\ RegFrame
    /\ rPc[g] = "idle"
    /\ rRet[g].done
    /\ rArgs[g].op \in Kinds
    /\ Put(rArgs[g].labels, k, v) # rArgs[g].labels
    /\ rArgs' = [rArgs EXCEPT ![g].labels = Put(@, k, v)]
    /\ prims' = [p \in DOMAIN prims |->
                    IF p \in SharesMap(g)
                    THEN [prims[p] EXCEPT !.labels = Put(@, k, v)]
                    ELSE prims[p]]
    /\ UNCHANGED <<counters, gauges, histograms, regMutex, rPc, rKey, rRet, rEff,
                   closeCalls, callsLeft>>

\* GetOrCreateCounter calls with and without labels by two goroutines that
\* go on to write to the maps they passed
MutatedKeys == {"b"}
MutatedValues == {"x"}
NextLabels ==
    \E g \in KindCallers :
        \/ \E name \in RegNames, unit \in RegUnits, labels \in RegLabelMaps :
              GetOrCreate(g, "counter", name, unit, labels, 0)
        \/ RLock(g)
        \/ ReadCheck(g)
        \/ Lock(g)
        \/ WriteCheck(g)
        \/ Create(g)
        \/ \E k \in MutatedKeys, v \in MutatedValues : MutateLabels(g, k, v)

\* goroutine 1 calls GetOrCreateCounter for one key and Close, one call after
\* the other (the steps of goroutine 2, on the counter first returned, are
\* added in NextReuse)
Owner == 1
Updater == 2
NextOwner ==
    \/ \E name \in RegNames, unit \in RegUnits :
          GetOrCreate(Owner, "counter", name, unit, NoLabels, 0)
    \/ RLock(Owner)
    \/ ReadCheck(Owner)
    \/ Lock(Owner)
    \/ WriteCheck(Owner)
    \/ Create(Owner)
    \/ Close(Owner)
    \/ CloseBody(Owner)

(***************************************************************************)
(* Counter.Add and Counter.Inc (metrics.go:233-252) on one counter shared  *)
(* by the goroutines.                                                      *)
(***************************************************************************)
MaxAdds == 3                            \* Add calls issued in a run
Deltas == {1, 2, -1}
CounterLabels == [k \in {"b"} |-> "c"]   \* Counter.labels, fixed at construction
InitValues == {0, 5}

\* a counter constructed with a value of V and a handle of H, and n calls to
\* issue
InitCounterIn(V, H, n) ==
    /\ value \in V
    /\ cInit = value
    /\ otelCounter \in H
    /\ cMutex = Nil
    /\ cPc = [g \in Goroutines |-> "idle"]
    /\ cDelta = [g \in Goroutines |-> 0]
    /\ cReg = [g \in Goroutines |-> 0]
    /\ cNew = [g \in Goroutines |-> 0]
    /\ otelAdds = <<>>
    /\ cSum = 0
    /\ addsLeft = n
    /\ cRets = <<>>

CntFrame == UNCHANGED <<keyVars, regVars, gaugeVars, histVars, pipeVars, newVars, srvVars>>

\* a goroutine is inside one call at a time
GoroutineIdle(g) == cPc[g] = "idle" /\ gPc[g] = "idle" /\ hPc[g] = "idle"

\* Add(delta) is called; Inc() is Add(1)
Add(g, delta) ==
    /\ CntFrame
    /\ GoroutineIdle(g)
    /\ addsLeft > 0
    /\ addsLeft' = addsLeft - 1
    /\ cDelta' = [cDelta EXCEPT ![g] = delta]
    /\ cSum' = cSum + delta
    /\ cPc' = [cPc EXCEPT ![g] = "lock"]
    /\ UNCHANGED <<value, otelCounter, cMutex, cReg, cNew, otelAdds, cInit, cRets>>

NoMutex(g) == TRUE

\* c.mutex.Lock() can proceed
MutexFree(g) == cMutex = Nil

\* c.mutex.Lock()
AddLock(g) ==
    /\ CntFrame
    /\ cPc[g] = "lock"
    /\ MutexFree(g)
    /\ cMutex' = g
    /\ cPc' = [cPc EXCEPT ![g] = "read"]
    /\ UNCHANGED <<value, otelCounter, cDelta, cReg, cNew, otelAdds, cInit, cSum, addsLeft, cRets>>

\* c.value += delta: the read
AddRead(g) ==
    /\ CntFrame
    /\ cPc[g] = "read"
    /\ cReg' = [cReg EXCEPT ![g] = value]
    /\ cPc' = [cPc EXCEPT ![g] = "write"]
    /\ UNCHANGED <<value, otelCounter, cMutex, cDelta, cNew, otelAdds, cInit, cSum, addsLeft, cRets>>

CapturedBefore(g) == cReg[g]

\* newValue := c.value, read right after the goroutine's own write
CapturedValue(g) == cReg[g] + cDelta[g]

\* c.value += delta: the write; newValue := c.value
AddWrite(g) ==
    /\ CntFrame
    /\ cPc[g] = "write"
    /\ value' = cReg[g] + cDelta[g]
    /\ cNew' = [cNew EXCEPT ![g] = CapturedValue(g)]
    /\ cPc' = [cPc EXCEPT ![g] = "forward"]
    /\ UNCHANGED <<otelCounter, cMutex, cDelta, cReg, otelAdds, cInit, cSum, addsLeft, cRets>>

CallsExporterAlways(handle) == TRUE

\* if c.otelCounter != nil (and the same test in Gauge and Histogram)
CallsExporter(handle) == handle # Nil

CounterForwardedAbsolute(g) == value

\* the first argument of c.otelCounter.Add(delta, c.labels)
CounterForwarded(g) == cDelta[g]

\* if c.otelCounter != nil { c.otelCounter.Add(delta, c.labels) }; a method
\* call on a nil interface value panics, and the deferred Unlock runs
AddForward(g) ==
    /\ CntFrame
    /\ cPc[g] = "forward"
    /\ IF ~CallsExporter(otelCounter)
       THEN /\ cPc' = [cPc EXCEPT ![g] = "return"]
            /\ UNCHANGED <<otelAdds, cMutex>>
       ELSE IF otelCounter = Nil
       THEN /\ cPc' = [cPc EXCEPT ![g] = "panic"]
            /\ cMutex' = Nil
            /\ UNCHANGED otelAdds
       ELSE /\ otelAdds' = Append(otelAdds, [delta |-> CounterForwarded(g),
                                              labels |-> CounterLabels])
            /\ cPc' = [cPc EXCEPT ![g] = "return"]
            /\ UNCHANGED cMutex
    /\ UNCHANGED <<value, otelCounter, cDelta, cReg, cNew, cInit, cSum, addsLeft, cRets>>

\* return newValue, and the deferred c.mutex.Unlock()
AddReturn(g) ==
    /\ CntFrame
    /\ cPc[g] = "return"
    /\ cMutex' = Nil
    /\ cPc' = [cPc EXCEPT ![g] = "idle"]
    /\ cRets' = Append(cRets, cNew[g])
    /\ UNCHANGED <<value, otelCounter, cDelta, cReg, cNew, otelAdds, cInit, cSum, addsLeft>>

NextCounter ==
    \E g \in Goroutines :
        \/ \E delta \in Deltas : Add(g, delta)
        \/ AddLock(g)
        \/ AddRead(g)
        \/ AddWrite(g)
        \/ AddForward(g)
        \/ AddReturn(g)

\* Add on the counter that the registry returned first
OldAdd(g, delta) ==
    /\ Len(prims) >= 1
    /\ Add(g, delta)

\* the registry calls of goroutine 1 and, on the first counter the registry
\* returned, whose fields are value, otelCounter and cMutex, Add by goroutine 2
NextReuse ==
    \/ NextOwner
    \/ \E delta \in Deltas : OldAdd(Updater, delta)
    \/ AddLock(Updater)
    \/ AddRead(Updater)
    \/ AddWrite(Updater)
    \/ AddForward(Updater)
    \/ AddReturn(Updater)

\* a counter as the registry builds it (metrics.go:117-125)
InitCounter == InitCounterIn({0}, {1}, MaxAdds)

\* func (c *Counter) Inc() int64 { return c.Add(1) }
Inc(g) == Add(g, 1)

\* concurrent Inc calls on one counter
NextInc ==
    \E g \in Goroutines :
        \/ Inc(g)
        \/ AddLock(g)
        \/ AddRead(g)
        \/ AddWrite(g)
        \/ AddForward(g)
        \/ AddReturn(g)

(***************************************************************************)
(* Gauge.Set / Inc / Dec / Add (metrics.go:254-288) on one gauge shared by *)
(* the goroutines.  Gauge.value is a float64: a sum is rounded to the      *)
(* nearest representable number, ties to the even significand.  The model *)
(* keeps that arithmetic on a smaller format: numbers are multiples of     *)
(* 2^-FracBits with MantissaBits significant bits, written as the integer  *)
(* count of 2^-FracBits units.                                             *)
(***************************************************************************)
MantissaBits == 3                       \* significant bits (53 in a float64)
FracBits == 3                           \* the smallest unit is 2^-FracBits
MaxGaugeOps == 3                        \* gauge calls issued in a run

RECURSIVE Pow2(_)
Pow2(n) == IF n = 0 THEN 1 ELSE 2 * Pow2(n - 1)

\* 1.0
One == Pow2(FracBits)

\* a >= 0 rounded to MantissaBits significant bits, from exponent e upwards
RECURSIVE RoundAt(_, _)
RoundAt(a, e) ==
    IF a < Pow2(MantissaBits + e)
    THEN LET q == a \div Pow2(e)
             r == a % Pow2(e)
             up == 2 * r > Pow2(e) \/ (2 * r = Pow2(e) /\ q % 2 = 1)
         IN  (IF up THEN q + 1 ELSE q) * Pow2(e)
    ELSE RoundAt(a, e + 1)

\* round to nearest, ties to even
Round(n) == IF n < 0 THEN 0 - RoundAt(0 - n, 0) ELSE RoundAt(n, 0)

\* a + b on float64 values
FloatAdd(a, b) == Round(a + b)

\* arguments of Set and Add: representable numbers
GaugeValues == {1, One}
GaugeDeltas == {0 - 3}
GaugeLabels == [k \in {"b"} |-> "c"]    \* Gauge.labels, fixed at construction

\* a gauge constructed with a value of V and a handle of H, and n calls to issue
InitGaugeIn(V, H, n) ==
    /\ gValue \in V
    /\ otelGauge \in H
    /\ gMutex = Nil
    /\ gPc = [g \in Goroutines |-> "idle"]
    /\ gArg = [g \in Goroutines |-> [op |-> "none", val |-> 0]]
    /\ otelSets = <<>>
    /\ gLog = <<>>
    /\ gOpsLeft = n

\* a gauge as the registry builds it (metrics.go:157-165)
InitGauge == InitGaugeIn({0}, {1}, MaxGaugeOps)

GaugeFrame == UNCHANGED <<keyVars, regVars, cntVars, histVars, pipeVars, newVars, srvVars>>

\* a gauge method is called: Set(v), Add(d), or Inc() / Dec(), which are
\* Add(1.0) / Add(-1.0)
GaugeCall(g, op, v) ==
    /\ GaugeFrame
    /\ GoroutineIdle(g)
    /\ gOpsLeft > 0
    /\ gOpsLeft' = gOpsLeft - 1
    /\ gArg' = [gArg EXCEPT ![g] = [op |-> op, val |-> v]]
    /\ gPc' = [gPc EXCEPT ![g] = "lock"]
    /\ UNCHANGED <<gValue, otelGauge, gMutex, otelSets, gLog>>

GaugeSet(g, v) == GaugeCall(g, "Set", v)
GaugeAdd(g, d) == GaugeCall(g, "Add", d)
GaugeInc(g) == GaugeCall(g, "Inc", One)
GaugeDec(g) == GaugeCall(g, "Dec", 0 - One)

GaugeNoMutex(g) == TRUE

\* g.mutex.Lock() can proceed
GaugeMutexFree(g) == gMutex = Nil

\* g.mutex.Lock()
GaugeLock(g) ==
    /\ GaugeFrame
    /\ gPc[g] = "lock"
    /\ GaugeMutexFree(g)
    /\ gMutex' = g
    /\ gPc' = [gPc EXCEPT ![g] = "write"]
    /\ UNCHANGED <<gValue, otelGauge, gArg, otelSets, gLog, gOpsLeft>>

\* g.value = value in Set, g.value += delta in Add
GaugeWrite(g) ==
    /\ GaugeFrame
    /\ gPc[g] = "write"
    /\ gValue' = IF gArg[g].op = "Set" THEN gArg[g].val
                 ELSE FloatAdd(gValue, gArg[g].val)
    /\ gLog' = Append(gLog, [op |-> gArg[g].op, arg |-> gArg[g].val,
                              old |-> gValue, new |-> gValue'])
    /\ gPc' = [gPc EXCEPT ![g] = "forward"]
    /\ UNCHANGED <<otelGauge, gMutex, gArg, otelSets, gOpsLeft>>

GaugeForwardedDelta(g) == gArg[g].val

\* the first argument of g.otelGauge.Set: value in Set, g.value in Add
GaugeForwarded(g) == IF gArg[g].op = "Set" THEN gArg[g].val ELSE gValue

\* if g.otelGauge != nil { g.otelGauge.Set(..., g.labels) }; a method call on
\* a nil interface value panics, and the deferred Unlock runs
GaugeForward(g) ==
    /\ GaugeFrame
    /\ gPc[g] = "forward"
    /\ IF ~CallsExporter(otelGauge)
       THEN /\ gPc' = [gPc EXCEPT ![g] = "return"]
            /\ UNCHANGED <<otelSets, gMutex>>
       ELSE IF otelGauge = Nil
       THEN /\ gPc' = [gPc EXCEPT ![g] = "panic"]
            /\ gMutex' = Nil
            /\ UNCHANGED otelSets
       ELSE /\ otelSets' = Append(otelSets, [value |-> GaugeForwarded(g),
                                             labels |-> GaugeLabels])
            /\ gPc' = [gPc EXCEPT ![g] = "return"]
            /\ UNCHANGED gMutex
    /\ UNCHANGED <<gValue, otelGauge, gArg, gLog, gOpsLeft>>

\* the return, and the deferred g.mutex.Unlock()
GaugeReturn(g) ==
    /\ GaugeFrame
    /\ gPc[g] = "return"
    /\ gMutex' = Nil
    /\ gPc' = [gPc EXCEPT ![g] = "idle"]
    /\ UNCHANGED <<gValue, otelGauge, gArg, otelSets, gLog, gOpsLeft>>

NextGauge ==
    \E g \in Goroutines :
        \/ \E v \in GaugeValues : GaugeSet(g, v)
        \/ \E d \in GaugeDeltas : GaugeAdd(g, d)
        \/ GaugeInc(g)
        \/ GaugeDec(g)
        \/ GaugeLock(g)
        \/ GaugeWrite(g)
        \/ GaugeForward(g)
        \/ GaugeReturn(g)

(***************************************************************************)
(* Histogram.Record (metrics.go:290-298) on one histogram shared by the    *)
(* goroutines.                                                             *)
(***************************************************************************)
MaxRecords == 2                         \* Record calls issued in a run
RecordValues == {1, One}
HistogramLabels == [k \in {"b"} |-> "c"]

\* a histogram constructed with a handle of H, and n calls to issue
InitHistogramIn(H, n) ==
    /\ otelHistogram \in H
    /\ hMutex = Nil
    /\ hPc = [g \in Goroutines |-> "idle"]
    /\ hArg = [g \in Goroutines |-> 0]
    /\ otelRecords = <<>>
    /\ hOpsLeft = n

\* a histogram as the registry builds it (metrics.go:200-207)
InitHistogram == InitHistogramIn({1}, MaxRecords)

HistFrame == UNCHANGED <<keyVars, regVars, cntVars, gaugeVars, pipeVars, newVars, srvVars>>

\* Record(value) is called
Record(g, v) ==
    /\ HistFrame
    /\ GoroutineIdle(g)
    /\ hOpsLeft > 0
    /\ hOpsLeft' = hOpsLeft - 1
    /\ hArg' = [hArg EXCEPT ![g] = v]
    /\ hPc' = [hPc EXCEPT ![g] = "lock"]
    /\ UNCHANGED <<otelHistogram, hMutex, otelRecords>>

\* h.mutex.Lock()
RecordLock(g) ==
    /\ HistFrame
    /\ hPc[g] = "lock"
    /\ hMutex = Nil
    /\ hMutex' = g
    /\ hPc' = [hPc EXCEPT ![g] = "forward"]
    /\ UNCHANGED <<otelHistogram, hArg, otelRecords, hOpsLeft>>

\* if h.otelHistogram != nil { h.otelHistogram.Record(value, h.labels) }
RecordForward(g) ==
    /\ HistFrame
    /\ hPc[g] = "forward"
    /\ IF ~CallsExporter(otelHistogram)
       THEN /\ hPc' = [hPc EXCEPT ![g] = "return"]
            /\ UNCHANGED <<otelRecords, hMutex>>
       ELSE IF otelHistogram = Nil
       THEN /\ hPc' = [hPc EXCEPT ![g] = "panic"]
            /\ hMutex' = Nil
            /\ UNCHANGED otelRecords
       ELSE /\ otelRecords' = Append(otelRecords, [value |-> hArg[g],
                                                   labels |-> HistogramLabels])
            /\ hPc' = [hPc EXCEPT ![g] = "return"]
            /\ UNCHANGED hMutex
    /\ UNCHANGED <<otelHistogram, hArg, hOpsLeft>>

\* the return, and the deferred h.mutex.Unlock()
RecordReturn(g) ==
    /\ HistFrame
    /\ hPc[g] = "return"
    /\ hMutex' = Nil
    /\ hPc' = [hPc EXCEPT ![g] = "idle"]
    /\ UNCHANGED <<otelHistogram, hArg, otelRecords, hOpsLeft>>

NextHistogram ==
    \E g \in Goroutines :
        \/ \E v \in RecordValues : Record(g, v)
        \/ RecordLock(g)
        \/ RecordForward(g)
        \/ RecordReturn(g)

(***************************************************************************)
(* The GoTel client (gotel.go): SendMetricsAsync, SendMetricsSync, the     *)
(* background worker, the fallback pool and Close.  Time is a counter that *)
(* Tick advances; a ForceFlush call starts in one step and returns in a    *)
(* later one, so the clock can advance while a flush is in progress.       *)
(***************************************************************************)
NumCallers == 2                         \* goroutines calling the client
MaxSends == 3                           \* SendMetricsAsync calls issued in a run
MaxTime == 3                            \* the clock stops here
MetricBufferSize == 1                   \* config.MetricBufferSize
MinSendInterval == 2                    \* config.MinSendInterval, in clock units
SendInterval == 2                       \* config.SendInterval, in clock units

Callers == 1..NumCallers
Worker == NumCallers + 1                \* the metricsWorker goroutine
Closer == NumCallers + 2                \* the goroutine calling Close
PoolTask == NumCallers + 3              \* any task running on the pool
Procs == Callers \cup {Worker, Closer}

PoolSizeFromTen(b) == IF b >= 10 THEN b \div 10 ELSE 10

\* poolSize := 10; if cfg.MetricBufferSize > 10 { poolSize = cfg.MetricBufferSize / 10 }
PoolSizeOf(b) == IF b > 10 THEN b \div 10 ELSE 10

\* poolSize in New: 10, or a tenth of the buffer size above 10
PoolSize == PoolSizeOf(MetricBufferSize)

\* the calls of the stress scenario: one more than the channel and the pool hold
StressSends == MetricBufferSize + PoolSize + 1

\* pool.Running(): tasks waiting for metricsMutex and the one holding it
PoolRunning == poolWaiting + (IF metricsMutex = PoolTask THEN 1 ELSE 0)

\* the zero time.Time: further back than any interval
ZeroTime == 0 - MinSendInterval - MaxTime

\* New has returned the client: the configuration was valid and the pool built
InitBuilt ==
    /\ cfgBufferSize = MetricBufferSize
    /\ poolCap = PoolSize
    /\ newPc = "done"

\* the fields of the client New returns, with EnableAsyncMetrics = async;
\* sends bounds the SendMetricsAsync calls of the run
InitFields(async, sends) ==
    /\ cfgAsync = async
    /\ metricsChan = 0
    /\ poolWaiting = 0
    /\ poolClosed = FALSE
    /\ metricsMutex = Nil
    /\ lastMetricsSent = ZeroTime
    /\ droppedRequests = 0
    /\ ctxDone = FALSE
    /\ tickerC = FALSE
    /\ now = 0
    /\ pc = [p \in Procs |-> IF p \in Callers THEN "idle"
                             ELSE IF p = Closer THEN "open"
                             ELSE IF cfgAsync THEN "select" ELSE "off"]
    /\ aErr = [c \in Callers |-> "nil"]
    /\ arr = [p \in Procs |-> 0]
    /\ wFinal = FALSE
    /\ sendsLeft = sends
    /\ poolRejected = 0
    /\ flushCalls = 0
    /\ flushArrs = <<>>
    /\ otelClosed = FALSE
    /\ lastSend = "none"
    /\ sigPending = FALSE

\* the client New returns
InitGoTelIn(async, sends) == InitBuilt /\ InitFields(async, sends)

MaxBufferSize == 50                     \* largest cfg.MetricBufferSize tried
BufferSizes == (0 - 1)..MaxBufferSize

\* New is called with a configuration whose MetricBufferSize is any of
\* BufferSizes (the other fields valid)
InitConfig ==
    /\ cfgBufferSize \in BufferSizes
    /\ poolCap = 0
    /\ newPc = "validate"

NewFrame == UNCHANGED <<keyVars, regVars, cntVars, gaugeVars, histVars, pipeVars, srvVars>>

\* if err := cfg.Validate(); err != nil { return nil, ... }:
\* Validate rejects c.MetricBufferSize <= 0
Validate ==
    /\ NewFrame
    /\ newPc = "validate"
    /\ newPc' = IF cfgBufferSize <= 0 THEN "error" ELSE "pool"
    /\ UNCHANGED <<cfgBufferSize, poolCap>>

\* pool, err := ants.NewPool(poolSize, ants.WithNonblocking(false))
NewPool ==
    /\ NewFrame
    /\ newPc = "pool"
    /\ poolCap' = PoolSizeOf(cfgBufferSize)
    /\ newPc' = "done"
    /\ UNCHANGED cfgBufferSize

NextNew == Validate \/ NewPool

PipeFrame == UNCHANGED <<keyVars, regVars, cntVars, gaugeVars, histVars, newVars, srvVars>>

ChanNeverHasRoom == FALSE

\* case g.metricsChan <- struct{}{} can proceed: the buffer is not full
ChanHasRoom == metricsChan < MetricBufferSize

\* select { case g.metricsChan <- struct{}{}: ... default: ... }
SendMetricsAsync(c) ==
    /\ PipeFrame
    /\ pc[c] = "idle"
    /\ sendsLeft > 0
    /\ sendsLeft' = sendsLeft - 1
    /\ IF ChanHasRoom
       THEN /\ metricsChan' = metricsChan + 1
            /\ sigPending' = TRUE
            /\ UNCHANGED pc
       ELSE /\ pc' = [pc EXCEPT ![c] = "fallback"]
            /\ UNCHANGED <<metricsChan, sigPending>>
    /\ UNCHANGED <<lastSend, cfgAsync, poolWaiting, poolClosed, metricsMutex, lastMetricsSent,
                   droppedRequests, ctxDone, tickerC, now, aErr, arr, wFinal,
                   poolRejected, flushCalls, flushArrs, otelClosed>>

NonblockingOn == TRUE

\* ants.WithNonblocking(false): a Submit that finds every worker busy waits
Nonblocking == FALSE

\* the pool (ants.NewPool(poolSize, ants.WithNonblocking(false))) can answer
\* a Submit: it is closed, or a worker is free; otherwise Submit waits
SubmitCanReturn == Nonblocking \/ poolClosed \/ PoolRunning < PoolSize

CountsAlways(err) == TRUE

\* if err != nil
CountsAsDropped(err) == err # "nil"

\* a variant in which a released pool still takes tasks
SubmitErrorAfterRelease ==
    IF PoolRunning >= PoolSize THEN "ErrPoolOverload" ELSE "nil"

\* what pool.Submit returns: ErrPoolClosed from a released pool,
\* ErrPoolOverload from a full pool that does not wait, otherwise nil
SubmitError ==
    IF poolClosed THEN "ErrPoolClosed"
    ELSE IF PoolRunning >= PoolSize THEN "ErrPoolOverload"
    ELSE "nil"

\* pool.Submit returns: with an error, or the task is started on a pool
\* goroutine; then
\* if err != nil { atomic.AddInt64(&g.droppedRequests, 1) }, and the return
SubmitOutcome(c) ==
    LET err == SubmitError
    IN  /\ IF err # "nil"
           THEN /\ poolRejected' = poolRejected + 1
                /\ UNCHANGED poolWaiting
           ELSE /\ poolWaiting' = poolWaiting + 1
                /\ UNCHANGED poolRejected
        /\ droppedRequests' = IF CountsAsDropped(err) THEN droppedRequests + 1
                              ELSE droppedRequests
        /\ pc' = [pc EXCEPT ![c] = "idle"]

\* err := g.pool.Submit(func() { g.sendMetricsWithRateLimit() })
Submit(c) ==
    /\ PipeFrame
    /\ UNCHANGED sigPending
    /\ pc[c] = "fallback"
    /\ IF SubmitCanReturn
       THEN SubmitOutcome(c)
       ELSE /\ pc' = [pc EXCEPT ![c] = "submit"]
            /\ UNCHANGED <<droppedRequests, poolRejected, poolWaiting>>
    /\ UNCHANGED <<lastSend, cfgAsync, metricsChan, poolClosed, metricsMutex, lastMetricsSent,
                   ctxDone, tickerC, now, aErr, arr, wFinal, sendsLeft,
                   flushCalls, flushArrs, otelClosed>>

\* a caller blocked inside pool.Submit is woken: a worker became free or the
\* pool was released
SubmitWake(c) ==
    /\ PipeFrame
    /\ UNCHANGED sigPending
    /\ pc[c] = "submit"
    /\ SubmitCanReturn
    /\ SubmitOutcome(c)
    /\ UNCHANGED <<lastSend, cfgAsync, metricsChan, poolClosed, metricsMutex, lastMetricsSent,
                   ctxDone, tickerC, now, aErr, arr, wFinal, sendsLeft,
                   flushCalls, flushArrs, otelClosed>>

\* entry of SendMetricsSync: g.metricsMutex.Lock() is next
SendMetricsSync(c) ==
    /\ PipeFrame
    /\ UNCHANGED sigPending
    /\ pc[c] = "idle"
    /\ pc' = [pc EXCEPT ![c] = "lock"]
    /\ arr' = [arr EXCEPT ![c] = now]
    /\ UNCHANGED <<lastSend, cfgAsync, metricsChan, poolWaiting, poolClosed, metricsMutex,
                   lastMetricsSent, droppedRequests, ctxDone, tickerC, now, aErr,
                   wFinal, sendsLeft, poolRejected, flushCalls, flushArrs, otelClosed>>

\* now.Sub(g.lastMetricsSent) < g.config.MinSendInterval
RateLimited == now - lastMetricsSent < MinSendInterval

AfterSendNoReturn(p) ==
    IF p \in Callers THEN "idle"
    ELSE IF p = Closer THEN "cancel"
    ELSE "select"

\* where a process goes when its rate-limited send returns
AfterSend(p) ==
    IF p \in Callers THEN "idle"
    ELSE IF p = Closer THEN "cancel"
    ELSE IF wFinal THEN "exit" ELSE "select"

SentAfterSkipNow == now

\* g.lastMetricsSent after a rate-limited return: the return comes before
\* g.lastMetricsSent = now
SentAfterSkip == lastMetricsSent

\* g.metricsMutex.Lock(), the rate-limit check, and either the return (with
\* the deferred Unlock) or g.lastMetricsSent = now and the ForceFlush call
Acquire(p) ==
    /\ PipeFrame
    /\ UNCHANGED sigPending
    /\ pc[p] = "lock"
    /\ metricsMutex = Nil
    /\ arr' = [arr EXCEPT ![p] = 0]
    /\ IF RateLimited
       THEN /\ pc' = [pc EXCEPT ![p] = AfterSend(p)]
            /\ aErr' = IF p \in Callers THEN [aErr EXCEPT ![p] = "nil"] ELSE aErr
            /\ lastSend' = "skipped"
            /\ lastMetricsSent' = SentAfterSkip
            /\ UNCHANGED <<metricsMutex, flushCalls, flushArrs>>
       ELSE /\ metricsMutex' = p
            /\ lastMetricsSent' = now
            /\ flushCalls' = flushCalls + 1
            /\ flushArrs' = Append(flushArrs, arr[p])
            /\ pc' = [pc EXCEPT ![p] = "flush"]
            /\ UNCHANGED <<aErr, lastSend>>
    /\ UNCHANGED <<cfgAsync, metricsChan, poolWaiting, poolClosed, droppedRequests,
                   ctxDone, tickerC, now, wFinal, sendsLeft, poolRejected,
                   otelClosed>>

\* what g.otelClient.ForceFlush() can return
FlushResults == {"nil", "ErrFlush"}

\* how a send that called ForceFlush ended
SendOutcome(err) == IF err = "nil" THEN "flushed" ELSE "failed"

AfterFlushStopsOnError(p, err) ==
    IF err # "nil" /\ p \notin Callers THEN "exit" ELSE AfterSend(p)

\* where a process goes when its ForceFlush has returned err: the error is
\* returned (SendMetricsSync) or logged (sendMetricsWithRateLimit), and the
\* send returns as it does without one
AfterFlush(p, err) == AfterSend(p)

SyncReturnsNil(err) == "nil"

\* SendMetricsSync: return g.otelClient.ForceFlush()
SyncReturns(err) == err

\* g.otelClient.ForceFlush() returns, with or without an error; the deferred
\* Unlock runs; SendMetricsSync returns the error, the others log it
FlushReturn(p) ==
    /\ PipeFrame
    /\ UNCHANGED sigPending
    /\ pc[p] = "flush"
    /\ metricsMutex' = Nil
    /\ \E err \in FlushResults :
        /\ pc' = [pc EXCEPT ![p] = AfterFlush(p, err)]
        /\ aErr' = IF p \in Callers THEN [aErr EXCEPT ![p] = SyncReturns(err)]
                   ELSE aErr
        /\ lastSend' = SendOutcome(err)
    /\ UNCHANGED <<cfgAsync, metricsChan, poolWaiting, poolClosed, lastMetricsSent,
                   droppedRequests, ctxDone, tickerC, now, arr, wFinal, sendsLeft,
                   poolRejected, flushCalls, flushArrs, otelClosed>>

\* a pool task runs sendMetricsWithRateLimit up to the ForceFlush call
PoolAcquire ==
    /\ PipeFrame
    /\ UNCHANGED sigPending
    /\ poolWaiting > 0
    /\ metricsMutex = Nil
    /\ poolWaiting' = poolWaiting - 1
    /\ IF RateLimited
       THEN /\ lastSend' = "skipped"
            /\ lastMetricsSent' = SentAfterSkip
            /\ UNCHANGED <<metricsMutex, flushCalls, flushArrs>>
       ELSE /\ metricsMutex' = PoolTask
            /\ lastMetricsSent' = now
            /\ flushCalls' = flushCalls + 1
            /\ UNCHANGED <<flushArrs, lastSend>>
    /\ UNCHANGED <<cfgAsync, metricsChan, poolClosed, droppedRequests, ctxDone,
                   tickerC, now, pc, aErr, arr, wFinal, sendsLeft, poolRejected,
                   otelClosed>>

\* the pool task's ForceFlush returns, with or without an error (logged); the
\* task ends and frees its worker
PoolFlushReturn ==
    /\ PipeFrame
    /\ UNCHANGED sigPending
    /\ metricsMutex = PoolTask
    /\ metricsMutex' = Nil
    /\ \E err \in FlushResults : lastSend' = SendOutcome(err)
    /\ UNCHANGED <<cfgAsync, metricsChan, poolWaiting, poolClosed, lastMetricsSent,
                   droppedRequests, ctxDone, tickerC, now, pc, aErr, arr, wFinal,
                   sendsLeft, poolRejected, flushCalls, flushArrs, otelClosed>>

\* the worker calls sendMetricsWithRateLimit
WorkerSend(final) ==
    /\ pc' = [pc EXCEPT ![Worker] = "lock"]
    /\ arr' = [arr EXCEPT ![Worker] = now]
    /\ wFinal' = final
    /\ sigPending' = FALSE

\* case <-g.ctx.Done()
WorkerDone ==
    /\ PipeFrame
    /\ pc[Worker] = "select"
    /\ ctxDone
    /\ WorkerSend(TRUE)
    /\ UNCHANGED <<lastSend, cfgAsync, metricsChan, poolWaiting, poolClosed, metricsMutex,
                   lastMetricsSent, droppedRequests, ctxDone, tickerC, now, aErr,
                   sendsLeft, poolRejected, flushCalls, flushArrs, otelClosed>>

\* case <-ticker.C
WorkerTick ==
    /\ PipeFrame
    /\ pc[Worker] = "select"
    /\ tickerC
    /\ tickerC' = FALSE
    /\ WorkerSend(FALSE)
    /\ UNCHANGED <<lastSend, cfgAsync, metricsChan, poolWaiting, poolClosed, metricsMutex,
                   lastMetricsSent, droppedRequests, ctxDone, now, aErr,
                   sendsLeft, poolRejected, flushCalls, flushArrs, otelClosed>>

\* case <-g.metricsChan
WorkerSignal ==
    /\ PipeFrame
    /\ pc[Worker] = "select"
    /\ metricsChan > 0
    /\ metricsChan' = metricsChan - 1
    /\ WorkerSend(FALSE)
    /\ UNCHANGED <<lastSend, cfgAsync, poolWaiting, poolClosed, metricsMutex,
                   lastMetricsSent, droppedRequests, ctxDone, tickerC, now, aErr,
                   sendsLeft, poolRejected, flushCalls, flushArrs, otelClosed>>

\* entry of Close: g.SendMetricsSync() is called first
CloseBegin ==
    /\ PipeFrame
    /\ UNCHANGED sigPending
    /\ pc[Closer] = "open"
    /\ pc' = [pc EXCEPT ![Closer] = "lock"]
    /\ arr' = [arr EXCEPT ![Closer] = now]
    /\ UNCHANGED <<lastSend, cfgAsync, metricsChan, poolWaiting, poolClosed, metricsMutex,
                   lastMetricsSent, droppedRequests, ctxDone, tickerC, now, aErr,
                   wFinal, sendsLeft, poolRejected, flushCalls, flushArrs, otelClosed>>

\* g.cancel()
CloseCancel ==
    /\ PipeFrame
    /\ UNCHANGED sigPending
    /\ pc[Closer] = "cancel"
    /\ ctxDone' = TRUE
    /\ pc' = [pc EXCEPT ![Closer] = "release"]
    /\ UNCHANGED <<lastSend, cfgAsync, metricsChan, poolWaiting, poolClosed, metricsMutex,
                   lastMetricsSent, droppedRequests, tickerC, now, aErr, arr,
                   wFinal, sendsLeft, poolRejected, flushCalls, flushArrs, otelClosed>>

\* g.pool.Release()
CloseRelease ==
    /\ PipeFrame
    /\ UNCHANGED sigPending
    /\ pc[Closer] = "release"
    /\ poolClosed' = TRUE
    /\ pc' = [pc EXCEPT ![Closer] = "otelclose"]
    /\ UNCHANGED <<lastSend, cfgAsync, metricsChan, poolWaiting, metricsMutex,
                   lastMetricsSent, droppedRequests, ctxDone, tickerC, now, aErr, arr,
                   wFinal, sendsLeft, poolRejected, flushCalls, flushArrs, otelClosed>>

\* g.otelClient.Close(), and the return of Close
CloseOtel ==
    /\ PipeFrame
    /\ UNCHANGED sigPending
    /\ pc[Closer] = "otelclose"
    /\ otelClosed' = TRUE
    /\ pc' = [pc EXCEPT ![Closer] = "closed"]
    /\ UNCHANGED <<lastSend, cfgAsync, metricsChan, poolWaiting, poolClosed, metricsMutex,
                   lastMetricsSent, droppedRequests, ctxDone, tickerC, now, aErr, arr,
                   wFinal, sendsLeft, poolRejected, flushCalls, flushArrs>>

\* some process can take metricsMutex at once
LockStepReady ==
    metricsMutex = Nil /\ (poolWaiting > 0 \/ \E p \in Procs : pc[p] = "lock")

TickerStopped == FALSE

\* the worker's ticker (time.NewTicker(g.config.SendInterval)) is running
TickerRunning == pc[Worker] \notin {"off", "exit"}

\* the clock advances by one unit; the ticker fires every SendInterval.  Steps
\* that take no time (taking a free mutex) come before the clock moves.
Tick ==
    /\ PipeFrame
    /\ UNCHANGED sigPending
    /\ now < MaxTime
    /\ ~LockStepReady
    /\ now' = now + 1
    /\ tickerC' = IF TickerRunning /\ now' % SendInterval = 0 THEN TRUE ELSE tickerC
    /\ UNCHANGED <<lastSend, cfgAsync, metricsChan, poolWaiting, poolClosed, metricsMutex,
                   lastMetricsSent, droppedRequests, ctxDone, pc, aErr, arr, wFinal,
                   sendsLeft, poolRejected, flushCalls, flushArrs, otelClosed>>

\* the client in asynchronous use: callers of SendMetricsAsync, the pool, the
\* worker, Close (which calls SendMetricsSync itself) and the clock.  A run
\* issues MaxSends calls, fewer than the pool has workers, so no Submit ever
\* waits here; SpecStress covers the full pool.
Next ==
    \/ \E c \in Callers :
        \/ SendMetricsAsync(c)
        \/ Submit(c)
    \/ \E p \in Procs :
        \/ Acquire(p)
        \/ FlushReturn(p)
    \/ PoolAcquire
    \/ PoolFlushReturn
    \/ WorkerDone
    \/ WorkerTick
    \/ WorkerSignal
    \/ CloseBegin
    \/ CloseCancel
    \/ CloseRelease
    \/ CloseOtel
    \/ Tick

\* the rate limiter: callers of SendMetricsSync, the worker with its ticker,
\* and the clock
NextRate ==
    \/ \E c \in Callers : SendMetricsSync(c)
    \/ \E p \in Procs :
        \/ Acquire(p)
        \/ FlushReturn(p)
    \/ WorkerTick
    \/ Tick

\* the stress scenario: callers of SendMetricsAsync, the pool, Close and the
\* clock, on a client whose worker was never started (EnableAsyncMetrics off),
\* so that nothing consumes the channel
NextStress ==
    \/ \E c \in Callers :
        \/ SendMetricsAsync(c)
        \/ Submit(c)
        \/ SubmitWake(c)
    \/ PoolAcquire
    \/ PoolFlushReturn
    \/ CloseBegin
    \/ Acquire(Closer)
    \/ FlushReturn(Closer)
    \/ CloseCancel
    \/ CloseRelease
    \/ CloseOtel
    \/ Tick

\* a client with the worker running
\* the client under load and never closed: callers of SendMetricsAsync, the
\* pool, the worker with its ticker, and the clock
NextOpen ==
    \/ \E c \in Callers :
        \/ SendMetricsAsync(c)
        \/ Submit(c)
        \/ SubmitWake(c)
    \/ PoolAcquire
    \/ PoolFlushReturn
    \/ Acquire(Worker)
    \/ FlushReturn(Worker)
    \/ WorkerTick
    \/ WorkerSignal
    \/ Tick

(***************************************************************************)
(* The HTTP server example: Server.sendMetricsSync                         *)
(* (examples/httpserver/server/server.go:165-190), called by the request   *)
(* handlers, which run one goroutine per request.                          *)
(***************************************************************************)
Millisecond == 2                        \* time.Millisecond, in clock units
SrvMaxTime == 3                         \* the example's clock stops here
SrvMaxCalls == 3                        \* sendMetricsSync calls issued in a run
SrvZeroTime == 0 - Millisecond - SrvMaxTime   \* the zero time.Time

\* the server NewServer returns
InitServer ==
    /\ srvLast = SrvZeroTime
    /\ srvPc = [g \in Goroutines |-> "idle"]
    /\ srvSince = [g \in Goroutines |-> 0]
    /\ srvNow = 0
    /\ srvSent = <<>>
    /\ srvCalls = SrvMaxCalls

SrvFrame == UNCHANGED <<keyVars, regVars, cntVars, gaugeVars, histVars, pipeVars, newVars>>

\* entry of sendMetricsSync
SrvCall(g) ==
    /\ SrvFrame
    /\ srvPc[g] = "idle"
    /\ srvCalls > 0
    /\ srvCalls' = srvCalls - 1
    /\ srvPc' = [srvPc EXCEPT ![g] = "read"]
    /\ UNCHANGED <<srvLast, srvSince, srvNow, srvSent>>

\* s.metricsMutex.RLock(); timeSinceLastSend := time.Since(s.lastMetricsSent);
\* s.metricsMutex.RUnlock()
SrvRead(g) ==
    /\ SrvFrame
    /\ srvPc[g] = "read"
    /\ srvSince' = [srvSince EXCEPT ![g] = srvNow - srvLast]
    /\ srvPc' = [srvPc EXCEPT ![g] = "check"]
    /\ UNCHANGED <<srvLast, srvNow, srvSent, srvCalls>>

\* if timeSinceLastSend < time.Millisecond
SrvTooSoon(g) == srvSince[g] < Millisecond

\* the check, s.metricsRegistry.Export() with or without time series, and
\* the start of s.prometheusClient.SendMetrics(timeSeries)
SrvCheck(g) ==
    /\ SrvFrame
    /\ srvPc[g] = "check"
    /\ IF SrvTooSoon(g)
       THEN /\ srvPc' = [srvPc EXCEPT ![g] = "idle"]
            /\ UNCHANGED srvSent
       ELSE \E empty \in BOOLEAN :
              IF empty
              THEN /\ srvPc' = [srvPc EXCEPT ![g] = "idle"]
                   /\ UNCHANGED srvSent
              ELSE /\ srvPc' = [srvPc EXCEPT ![g] = "send"]
                   /\ srvSent' = Append(srvSent, [at |-> srvNow, last |-> srvLast])
    /\ UNCHANGED <<srvLast, srvSince, srvNow, srvCalls>>

\* SendMetrics returns: on success s.lastMetricsSent = time.Now() under the
\* write lock, on failure a log line
SrvSendReturn(g) ==
    /\ SrvFrame
    /\ srvPc[g] = "send"
    /\ \E ok \in BOOLEAN : srvLast' = IF ok THEN srvNow ELSE srvLast
    /\ srvPc' = [srvPc EXCEPT ![g] = "idle"]
    /\ UNCHANGED <<srvSince, srvNow, srvSent, srvCalls>>

\* the example's clock advances
SrvTick ==
    /\ SrvFrame
    /\ srvNow < SrvMaxTime
    /\ srvNow' = srvNow + 1
    /\ UNCHANGED <<srvLast, srvPc, srvSince, srvSent, srvCalls>>

NextServer ==
    \/ \E g \in Goroutines :
          \/ SrvCall(g)
          \/ SrvRead(g)
          \/ SrvCheck(g)
          \/ SrvSendReturn(g)
    \/ SrvTick

InitGoTel == InitGoTelIn(TRUE, MaxSends)
\* the state after construction
Init == InitKey /\ InitServer /\ InitRegistry /\ InitCounter /\ InitGauge /\ InitHistogram /\ InitGoTel
\* the same, for a counter built directly with any value and handle
InitAnyCounter ==
    InitKey /\ InitServer /\ InitRegistry /\ InitCounterIn(InitValues, {Nil, 1}, MaxAdds) /\ InitGauge
    /\ InitHistogram /\ InitGoTel
\* the same, with EnableAsyncMetrics off and StressSends calls to issue
InitStress ==
    InitKey /\ InitServer /\ InitRegistry /\ InitCounter /\ InitGauge /\ InitHistogram /\ InitGoTelIn(FALSE, StressSends)
\* the same, with no more calls to issue than the channel holds
InitWorker ==
    InitKey /\ InitServer /\ InitRegistry /\ InitCounter /\ InitGauge /\ InitHistogram /\ InitGoTelIn(TRUE, MetricBufferSize)
\* the same, with the worker started and StressSends calls to issue
InitOpen ==
    InitKey /\ InitServer /\ InitRegistry /\ InitCounter /\ InitGauge /\ InitHistogram /\ InitGoTelIn(TRUE, StressSends)

\* New called with any buffer size
InitNew ==
    InitKey /\ InitServer /\ InitRegistry /\ InitCounter /\ InitGauge /\ InitHistogram
    /\ InitConfig /\ InitFields(TRUE, MaxSends)
SpecNew == InitNew /\ [][NextNew]_vars
SpecServer == Init /\ [][NextServer]_vars

Spec == Init /\ [][Next]_vars
SpecKey == Init /\ [][NextKey]_vars
SpecRegistry == Init /\ [][NextRegistry]_vars
SpecCounter == InitAnyCounter /\ [][NextCounter]_vars
SpecRate == Init /\ [][NextRate]_vars
SpecStress == InitStress /\ [][NextStress]_vars
SpecOpen == InitOpen /\ [][NextOpen]_vars

\* the same, for a gauge built directly with any handle
InitAnyGauge ==
    InitKey /\ InitServer /\ InitRegistry /\ InitCounter /\ InitGaugeIn({0}, {Nil, 1}, MaxGaugeOps)
    /\ InitHistogram /\ InitGoTel
SpecGauge == InitAnyGauge /\ [][NextGauge]_vars
\* a new registry and KindCalls calls to issue
InitKinds ==
    InitKey /\ InitServer /\ InitRegistryIn(KindCalls) /\ InitCounter /\ InitGauge /\ InitHistogram
    /\ InitGoTel
SpecKinds == InitKinds /\ [][NextKinds]_vars
SpecBuckets == InitKinds /\ [][NextBuckets]_vars
\* NewRegistry(nil, ctx) or NewRegistry(client, ctx), and KindCalls calls to issue
InitAnyClient ==
    InitKey /\ InitServer /\ InitRegistryOf({Nil, Exporter}, KindCalls) /\ InitCounter /\ InitGauge
    /\ InitHistogram /\ InitGoTel
SpecClient == InitAnyClient /\ [][NextClient]_vars
SpecReuse == InitKinds /\ [][NextReuse]_vars
SpecLabels == InitKinds /\ [][NextLabels]_vars
\* a counter built directly, with any value and handle, that only Inc is called on
SpecInc == InitAnyCounter /\ [][NextInc]_vars

NilOps == 3                             \* calls issued on the three primitives
\* a counter, a gauge and a histogram built without an exporter handle
\* (NewCounter(..., nil) and the like), NilOps calls to issue on them in all
InitNil ==
    \E a \in 0..NilOps : \E b \in 0..(NilOps - a) :
        /\ InitKey /\ InitServer /\ InitRegistry /\ InitGoTel
        /\ InitCounterIn(InitValues, {Nil}, a)
        /\ InitGaugeIn({0}, {Nil}, b)
        /\ InitHistogramIn({Nil}, NilOps - a - b)
\* the calls of the nil-handle tests, made one after another by one goroutine
NextNil ==
    \E g \in {1} :
        \/ \E delta \in Deltas : Add(g, delta)
        \/ AddLock(g)
        \/ AddRead(g)
        \/ AddWrite(g)
        \/ AddForward(g)
        \/ AddReturn(g)
        \/ \E v \in GaugeValues : GaugeSet(g, v)
        \/ \E d \in GaugeDeltas : GaugeAdd(g, d)
        \/ GaugeInc(g)
        \/ GaugeDec(g)
        \/ GaugeLock(g)
        \/ GaugeWrite(g)
        \/ GaugeForward(g)
        \/ GaugeReturn(g)
        \/ \E v \in RecordValues : Record(g, v)
        \/ RecordLock(g)
        \/ RecordForward(g)
        \/ RecordReturn(g)
SpecNil == InitNil /\ [][NextNil]_vars

\* the worker from start to shutdown: callers of SendMetricsAsync that issue
\* no more calls than the channel holds (so every call queues its signal),
\* the worker, Close (whose SendMetricsSync competes for metricsMutex) and
\* the clock
NextWorker ==
    \/ \E c \in Callers : SendMetricsAsync(c)
    \/ \E p \in Procs :
        \/ Acquire(p)
        \/ FlushReturn(p)
    \/ WorkerDone
    \/ WorkerTick
    \/ WorkerSignal
    \/ CloseBegin
    \/ CloseCancel
    \/ CloseRelease
    \/ CloseOtel
    \/ Tick

\* the exporter's ForceFlush in progress returns (one at a time: the caller
\* holds metricsMutex)
FlushReturns == PoolFlushReturn \/ \E p \in Procs : FlushReturn(p)

\* Scheduling of the worker.  Time passes; exporter calls return; a goroutine
\* waiting for metricsMutex gets it in the end (sync.Mutex hands the lock to
\* a starving waiter); a select with several ready cases picks among them at
\* random, so a case that stays ready (the cancellation, a pending tick) is
\* taken in the end.
Fairness ==
    /\ WF_vars(Tick)
    /\ WF_vars(FlushReturns)
    /\ SF_vars(Acquire(Worker))
    /\ SF_vars(Acquire(Closer))
    /\ SF_vars(WorkerDone)
    /\ SF_vars(WorkerTick)
SpecFair == InitWorker /\ [][NextWorker]_vars /\ Fairness

\* the same, and a signal that stays in the channel while the worker comes
\* back to its select is received in the end
SignalFairness == Fairness /\ SF_vars(WorkerSignal)
SpecSignal == InitWorker /\ [][NextWorker]_vars /\ SignalFairness

(***************************************************************************)
(* Properties of metricKey (SpecKey).                                      *)
(***************************************************************************)

\* C5: metricKey(name, labels) is the canonical form: name alone when there
\* are no labels, otherwise name{k1=v1,k2=v2,...} with the labels sorted by
\* key; and two calls with the same name and labels return the same key.
C5_KeyIsCanonical ==
    /\ keyCalls > 0 => keyOut = CanonicalKey(keyIn.name, keyIn.labels)
    /\ keyCalls = 2 /\ keyIn = keyPrevIn => keyOut = keyPrevOut

\* C6: metricKey is injective: two calls that return the same key were given
\* the same name and the same label set.
C6_KeyInjective ==
    keyCalls = 2 /\ keyOut = keyPrevOut => keyIn = keyPrevIn

(***************************************************************************)
(* Properties of the registry (SpecRegistry).                              *)
(***************************************************************************)
IsGetOrCreate(g) == rArgs[g].op \in Kinds
Succeeded(g) == rRet[g].done /\ rRet[g].err = "nil" /\ IsGetOrCreate(g)
SameInstrument(g, h) ==
    /\ rArgs[g].op = rArgs[h].op
    /\ rArgs[g].name = rArgs[h].name
    /\ rArgs[g].labels = rArgs[h].labels
\* the primitives built for the instrument of g's call
Created(g) ==
    {p \in DOMAIN prims : /\ prims[p].kind = rArgs[g].op
                          /\ prims[p].name = rArgs[g].name
                          /\ prims[p].labels = rArgs[g].labels}

\* C1: while the registry is not closed, all successful GetOrCreate calls
\* with the same kind, name and labels return the same primitive, and exactly
\* one primitive (one successful exporter Create) exists for them.
C1_OnePrimitivePerInstrument ==
    closeCalls = 0 =>
        \A g, h \in Goroutines :
            Succeeded(g) /\ Succeeded(h) /\ SameInstrument(g, h) =>
                /\ rRet[g].prim = rRet[h].prim
                /\ Cardinality(Created(g)) = 1

FailedCreate(g) == rRet[g].done /\ rRet[g].err = "ErrCreatingMetric"
AllMaps == <<counters, gauges, histograms>>

OverLimit(g) == rArgs[g].op = "histogram" /\ rArgs[g].buckets > MaxBuckets

\* C9: GetOrCreateHistogram with more than 20 buckets returns
\* ErrHistBucketSizeTooLarge and nil at once, makes no exporter call and
\* writes no map: the step leaves the three maps unchanged.
C9_TooManyBuckets ==
    /\ [](\A g \in Goroutines :
            OverLimit(g) =>
                /\ rPc[g] = "idle" /\ rRet[g].done
                /\ rRet[g].err = "ErrHistBucketSizeTooLarge"
                /\ rRet[g].prim = Nil
                /\ rEff[g].creates = 0 /\ rEff[g].inserts = 0)
    /\ [][\A g \in Goroutines :
            callsLeft' < callsLeft /\ rArgs'[g] # rArgs[g] /\ OverLimit(g)' =>
                AllMaps' = AllMaps]_vars

\* C9 witness: a call with 21 buckets has returned the error while a
\* histogram is registered
C9_Witness ==
    \E g \in Goroutines :
        /\ OverLimit(g) /\ rRet[g].done
        /\ rRet[g].err = "ErrHistBucketSizeTooLarge"
        /\ DOMAIN histograms # {}

(***************************************************************************)
(* Properties of Counter.Add (SpecCounter).                                *)
(***************************************************************************)
AllReturned == \A g \in Goroutines : cPc[g] = "idle"

\* C4: once every Add / Inc call has returned, the counter's value is its
\* initial value plus the sum of all deltas.
C4_NoLostUpdate == AllReturned => value = cInit + cSum

\* C4 witness: all the Add calls of the run were issued and returned, with a
\* non-zero total
C4_Witness == AllReturned /\ addsLeft = 0 /\ cSum # 0 /\ value = cInit + cSum

\* Add calls issued, and those among them that have not reached the exporter
AddsIssued == MaxAdds - addsLeft
AddsNotForwarded ==
    Cardinality({g \in Goroutines : cPc[g] \in {"lock", "read", "write", "forward"}})

\* what one step of goroutine g inside Add must do
AddStep(g) ==
    /\ cPc[g] = "write" /\ cPc'[g] = "forward" =>
          value' = value + cDelta[g] /\ cNew'[g] = value'
    /\ cPc[g] = "forward" /\ cPc'[g] = "return" /\ otelCounter # Nil =>
          otelAdds' = Append(otelAdds, [delta |-> cDelta[g], labels |-> CounterLabels])
    /\ cPc[g] = "return" /\ cPc'[g] = "idle" => cNew[g] = value

\* C19 (SpecCounter): every Add(delta), Inc being Add(1), adds delta to the
\* local value, returns the value after its own addition, and makes exactly
\* one exporter Add call, carrying the delta and the counter's labels.
C19_CounterAdd ==
    /\ [](otelCounter # Nil => Len(otelAdds) = AddsIssued - AddsNotForwarded)
    /\ [](otelCounter = Nil => otelAdds = <<>>)
    /\ [][\A g \in Goroutines : AddStep(g)]_vars

\* C19 witness: a counter with an exporter handle and a non-zero value took a
\* negative delta after a positive one, and every call has returned
C19_Witness ==
    /\ AllReturned
    /\ otelCounter # Nil
    /\ cInit # 0
    /\ Len(otelAdds) = MaxAdds
    /\ otelAdds[1].delta > 0
    /\ otelAdds[MaxAdds].delta < 0

(***************************************************************************)
(* Properties of the Gauge                                                 *)
(***************************************************************************)
\* the value a mutation leaves in the gauge: v for Set, old + d for Add,
\* old + 1 for Inc, old - 1 for Dec, in float64 arithmetic
GaugeExpected(m) ==
    CASE m.op = "Set" -> m.arg
      [] m.op = "Add" -> FloatAdd(m.old, m.arg)
      [] m.op = "Inc" -> FloatAdd(m.old, One)
      [] m.op = "Dec" -> FloatAdd(m.old, 0 - One)

\* mutations whose call has gone past the exporter
GaugeForwardsDone ==
    Len(gLog) - Cardinality({g \in Goroutines : gPc[g] = "forward"})

\* every mutation leaves the documented value and is forwarded once, in
\* order, as one Set call carrying that value and the gauge's labels
GaugeForwardsAbsolute ==
    /\ \A i \in 1..Len(gLog) : gLog[i].new = GaugeExpected(gLog[i])
    /\ otelGauge # Nil =>
        /\ Len(otelSets) = GaugeForwardsDone
        /\ \A i \in 1..Len(otelSets) :
              otelSets[i] = [value |-> gLog[i].new, labels |-> GaugeLabels]

\* the i-th mutation is an Inc and the next one the Dec that follows it
IncThenDec(i) == gLog[i].op = "Inc" /\ gLog[i + 1].op = "Dec"

\* C20 as stated: every Set, Add, Inc and Dec forwards exactly one exporter
\* Set call carrying the absolute post-mutation value and the gauge's labels,
\* and an Inc followed by a Dec restores the value the gauge had before.
C20_IncDecRestores ==
    /\ GaugeForwardsAbsolute
    /\ \A i \in 1..(Len(gLog) - 1) :
          IncThenDec(i) => gLog[i + 1].new = gLog[i].old

\* C20, amended: every Set, Add, Inc and Dec forwards exactly one exporter
\* Set call carrying the absolute post-mutation value and the gauge's labels,
\* and an Inc followed by a Dec restores the value the gauge had before
\* whenever that value plus one is a float64 (the Inc did not round).
C20_GaugeForwards ==
    /\ GaugeForwardsAbsolute
    /\ \A i \in 1..(Len(gLog) - 1) :
          (IncThenDec(i) /\ gLog[i].new = gLog[i].old + One)
              => gLog[i + 1].new = gLog[i].old

\* an Inc that did not round and the Dec after it, both forwarded, after a
\* mutation that left the gauge away from zero
C20_Witness ==
    /\ otelGauge # Nil
    /\ Len(otelSets) = 3
    /\ gLog[1].new # 0
    /\ IncThenDec(2)
    /\ gLog[2].new = gLog[2].old + One

(***************************************************************************)
(* Properties of the primitives built without an exporter handle (SpecNil). *)
(***************************************************************************)
\* no call on any of the three primitives has panicked
NoPanic ==
    \A g \in Goroutines :
        cPc[g] # "panic" /\ gPc[g] # "panic" /\ hPc[g] # "panic"

\* no call is in progress
AllIdle == \A g \in Goroutines : GoroutineIdle(g)

\* C18: with a nil exporter handle no Counter, Gauge or Histogram call panics
\* or reaches the exporter; the counter holds its initial value plus the
\* deltas of the calls made once they have returned, the gauge holds the
\* result of its last mutation and every mutation leaves the documented
\* value, and Record changes nothing.
C18_NilHandleTolerated ==
    /\ NoPanic
    /\ otelAdds = <<>> /\ otelSets = <<>> /\ otelRecords = <<>>
    /\ AllIdle => value = cInit + cSum
    /\ \A g \in Goroutines : cPc[g] = "return" => cNew[g] = value
    /\ \A i \in 1..Len(gLog) : gLog[i].new = GaugeExpected(gLog[i])
    /\ gValue = IF gLog = <<>> THEN 0 ELSE gLog[Len(gLog)].new

\* every call on the three nil-handle primitives has been made and has
\* returned, and counter and gauge have moved
C18_Witness ==
    /\ otelCounter = Nil /\ otelGauge = Nil /\ otelHistogram = Nil
    /\ addsLeft = 0 /\ gOpsLeft = 0 /\ hOpsLeft = 0
    /\ AllIdle
    /\ value # cInit
    /\ gValue # 0
    /\ \E g \in Goroutines : hArg[g] # 0

(***************************************************************************)
(* Properties of the GoTel client.                                         *)
(***************************************************************************)

\* C2 (SpecStress): SendMetricsAsync never blocks its caller: no caller is
\* ever waiting inside pool.Submit.
C2_NeverBlocks == \A c \in Callers : pc[c] # "submit"

\* C3 (SpecStress): droppedRequests is the number of completed
\* SendMetricsAsync calls that found the channel full and whose pool
\* submission was rejected.
C3_DroppedCountsRejections == droppedRequests = poolRejected

\* C3 witness: every call of the run has returned; the pool took a task for
\* each of its workers, and a call that came to the released pool was dropped
C3_Witness ==
    /\ droppedRequests >= 1
    /\ PoolRunning = PoolSize
    /\ sendsLeft = 0
    /\ \A c \in Callers : pc[c] = "idle"

\* C7 (SpecRate): of two flush triggers raised less than MinSendInterval
\* apart, at most one calls the exporter's ForceFlush.
C7_OneFlushPerInterval ==
    \A i, j \in DOMAIN flushArrs :
        i < j => flushArrs[j] - flushArrs[i] >= MinSendInterval
                 \/ flushArrs[i] - flushArrs[j] >= MinSendInterval

\* C10 (SpecStress): with no worker consuming the channel and the client
\* open, once all the calls of the run have returned, droppedRequests is the
\* number of calls less the buffer size and the pool capacity.
C10_StressDrops ==
    /\ sendsLeft = 0
    /\ \A c \in Callers : pc[c] = "idle"
    /\ pc[Closer] = "open"
    => droppedRequests = StressSends - MetricBufferSize - PoolSize

WorkerFinalStep ==
    /\ wFinal => wFinal'
    /\ wFinal /\ pc[Worker] # "lock" => pc'[Worker] # "lock"
    /\ pc[Worker] = "exit" =>
          pc'[Worker] = "exit" /\ metricsChan' >= metricsChan /\ tickerC' = tickerC

\* C12 (SpecFair): once the context is cancelled the worker eventually takes
\* the cancellation branch, makes exactly one final sendMetricsWithRateLimit
\* call and terminates; after that it handles no signal and no tick.
C12_WorkerFinalFlush ==
    /\ (ctxDone ~> pc[Worker] = "exit")
    /\ [](pc[Worker] = "exit" => wFinal)
    /\ [][WorkerFinalStep]_vars

\* C12 witness: the worker has exited after its final send and a signal is
\* left on the channel
C12_Witness ==
    /\ pc[Worker] = "exit"
    /\ wFinal
    /\ metricsChan > 0

\* times of the run that a whole tick period follows
TimesBeforeLastPeriod == 0..(MaxTime - SendInterval)

C14_NoFlushAfterClose == [][otelClosed => flushCalls' = flushCalls]_vars

(***************************************************************************)
(* Properties of registry.Close (SpecRegistry).                            *)
(***************************************************************************)

\* goroutine g returns from registry.Close in this step
CloseReturns(g) == rPc[g] = "closing" /\ rPc'[g] = "idle"

\* C15 (SpecRegistry): a Close call made after a Close that succeeded does
\* nothing, in particular does not call the exporter's Close again, or
\* returns an already-closed error.
C15_SecondCloseNoop ==
    [][\A g \in Goroutines :
          CloseReturns(g) /\ closeCalls >= 1 =>
              \/ rEff'[g].closes = 0 /\ rRet'[g].err = "nil"
              \/ rRet'[g].err = "ErrAlreadyClosed"]_vars

\* C16 (SpecRegistry): Close, holding the write lock, calls the exporter's
\* Close exactly once, returns the exporter's error if there is one, and
\* leaves the three maps empty when it returns.
C16_CloseClears ==
    [][\A g \in Goroutines :
          CloseReturns(g) =>
              /\ regMutex.writer
              /\ rEff'[g].closes = 1
              /\ counters' = NoLabels
              /\ gauges' = NoLabels
              /\ histograms' = NoLabels]_vars

\* every entry of map m is in map n, with the same primitive
Keeps(m, n) == \A k \in DOMAIN m : k \in DOMAIN n /\ n[k] = m[k]

\* C17 (SpecRegistry): until Close clears the maps, no step removes or
\* replaces an entry: a key that maps to a primitive maps to the same
\* primitive after the step.
C17_EntriesStay ==
    [][closeCalls' = closeCalls =>
          /\ Keeps(counters, counters')
          /\ Keeps(gauges, gauges')
          /\ Keeps(histograms, histograms')]_vars

\* C17 witness: before any Close, a goroutine that missed under the read lock
\* holds the write lock and the entry it is about to look up again has been
\* stored by another goroutine meanwhile
C17_Witness ==
    /\ closeCalls = 0
    /\ \E h \in Goroutines :
        /\ rPc[h] = "wcheck"
        /\ rKey[h] \in DOMAIN RegMap(rArgs[h].op)

(***************************************************************************)
(* Properties of SendMetricsSync and of the rate limit (SpecRate).         *)
(***************************************************************************)
\* caller c makes its rate-limit check in this step
SyncChecks(c) == pc[c] = "lock" /\ pc'[c] # "lock"

\* the ForceFlush called by caller c returns in this step
SyncFlushReturns(c) == pc[c] = "flush" /\ pc'[c] # "flush"

\* C21: SendMetricsSync makes the rate-limit check of the asynchronous path
\* on the same lastMetricsSent, on the calling goroutine: when less than
\* MinSendInterval has passed it returns nil and calls no ForceFlush;
\* otherwise it stores the time, calls ForceFlush once and returns what
\* ForceFlush returned.
SyncStep ==
    \A c \in Callers :
        /\ SyncChecks(c) =>
              IF now - lastMetricsSent < MinSendInterval
              THEN /\ pc'[c] = "idle" /\ aErr'[c] = "nil"
                   /\ flushCalls' = flushCalls
                   /\ lastMetricsSent' = lastMetricsSent
              ELSE /\ pc'[c] = "flush" /\ metricsMutex' = c
                   /\ flushCalls' = flushCalls + 1
                   /\ lastMetricsSent' = now
        /\ SyncFlushReturns(c) =>
              /\ pc'[c] = "idle"
              /\ flushCalls' = flushCalls
              /\ (aErr'[c] = "nil") <=> (lastSend' = "flushed")
              /\ (aErr'[c] = "ErrFlush") <=> (lastSend' = "failed")

C21_SendMetricsSync == [][SyncStep]_vars

\* one SendMetricsSync call returned the exporter's error, and a later one by
\* the other caller was rate limited and returned nil
C21_Witness ==
    \E c, d \in Callers :
        /\ c # d
        /\ pc[c] = "idle" /\ aErr[c] = "ErrFlush"
        /\ pc[d] = "idle" /\ arr[d] = 0 /\ aErr[d] = "nil"
        /\ lastSend = "skipped"
        /\ flushCalls = 1
        /\ now < SendInterval             \* the ticker has not fired

(***************************************************************************)
(* Properties of flush errors on the asynchronous path (Spec).             *)
(***************************************************************************)
\* a ForceFlush called by the worker or by a pool task returns an error in
\* this step
AsyncFlushFails ==
    /\ metricsMutex \in {Worker, PoolTask}
    /\ metricsMutex' = Nil
    /\ lastSend' = "failed"

\* C22: an exporter error of a flush made by the worker (for a signal, a
\* tick or at shutdown) or by a pool task is absorbed: no caller's position
\* or result changes, droppedRequests does not change, and the worker goes
\* back to its select loop (or, after its final flush, exits as it does
\* without an error).
AsyncErrorStep ==
    AsyncFlushFails =>
        /\ droppedRequests' = droppedRequests
        /\ aErr' = aErr
        /\ \A c \in Callers : pc'[c] = pc[c]
        /\ pc'[Worker] = IF metricsMutex # Worker THEN pc[Worker]
                         ELSE IF wFinal THEN "exit" ELSE "select"
        /\ UNCHANGED <<metricsChan, tickerC, poolRejected, ctxDone, poolClosed>>

C22_AsyncErrorAbsorbed == [][AsyncErrorStep]_vars

\* the worker's flush failed, and the worker has since taken the next signal
C22_Witness ==
    /\ lastSend = "failed"
    /\ flushCalls = 1 /\ Len(flushArrs) = 1
    /\ pc[Closer] = "open"
    /\ pc[Worker] = "lock" /\ ~wFinal
    /\ droppedRequests = 0

(***************************************************************************)
(* Lock scope of the rate limiter (SpecRate) and of Counter.Add            *)
(* (SpecCounter).                                                          *)
(***************************************************************************)
\* C23: the rate-limit lock is released before ForceFlush is called: while
\* the flush of one trigger is in progress, another trigger that is at its
\* g.metricsMutex.Lock() finds the mutex free and can make its rate-limit
\* check without waiting for the flush to return.
C23_CheckDuringFlush ==
    \A p, q \in Procs :
        (pc[p] = "flush" /\ pc[q] = "lock") => metricsMutex = Nil

\* C24: Counter.Add releases the counter's lock before it forwards to the
\* exporter: while one caller is at its exporter call, another caller that
\* is at its c.mutex.Lock() finds the mutex free and can update the value
\* and return.
C24_AddDuringForward ==
    \A g, h \in Goroutines :
        (cPc[g] = "forward" /\ otelCounter # Nil /\ cPc[h] = "lock")
            => cMutex = Nil

(***************************************************************************)
(* Values returned by concurrent Counter.Inc calls (SpecInc).              *)
(***************************************************************************)
\* C25: each Inc returns the value its own mutation produced: on a counter
\* that starts at v, the calls that have returned so far returned v + 1,
\* v + 2, ... each once (1..N for N calls on a new counter), whatever the
\* interleaving; a call that has written and not yet returned holds the next
\* value.
C25_IncReturnsOwnValue ==
    /\ \A i \in 1..Len(cRets) : cRets[i] = cInit + i
    /\ \A g \in Goroutines :
          cPc[g] \in {"forward", "return"} => cNew[g] = cInit + Len(cRets) + 1
    /\ (addsLeft = 0 /\ \A g \in Goroutines : cPc[g] = "idle")
          => Len(cRets) = MaxAdds

\* every Inc of a run on a new counter has returned, and two goroutines were
\* inside Inc together
C25_Witness ==
    /\ cInit = 0
    /\ Len(cRets) = MaxAdds
    /\ cRets[MaxAdds] = MaxAdds
    /\ \E g, h \in Goroutines : g # h /\ cNew[g] # 0 /\ cNew[h] # 0

(***************************************************************************)
(* Order of the tiers in SendMetricsAsync (SpecOpen).                      *)
(***************************************************************************)
\* a SendMetricsAsync call makes its send attempt in this step
SendAttempt == sendsLeft' = sendsLeft - 1

\* pool.Submit returns to a caller in this step
SubmitAnswered == poolWaiting' > poolWaiting \/ poolRejected' > poolRejected

\* C26: SendMetricsAsync tries the channel first.  A call that finds room
\* queues exactly one signal and returns, with the pool and droppedRequests
\* untouched; a call goes on to pool.Submit only when its send attempt found
\* the channel full; and only such a call starts a pool task or counts a
\* dropped request.
AsyncTierStep ==
    /\ SendAttempt =>
          IF metricsChan < MetricBufferSize
          THEN /\ metricsChan' = metricsChan + 1
               /\ pc' = pc
               /\ UNCHANGED <<poolWaiting, poolRejected, droppedRequests>>
          ELSE /\ metricsChan' = metricsChan
               /\ \E c \in Callers : pc[c] = "idle" /\ pc'[c] = "fallback"
               /\ UNCHANGED <<poolWaiting, poolRejected, droppedRequests>>
    /\ \A c \in Callers :
          (pc'[c] = "fallback" /\ pc[c] # "fallback")
              => (SendAttempt /\ metricsChan = MetricBufferSize)
    /\ \A c \in Callers :
          (pc'[c] = "submit" /\ pc[c] # "submit") => pc[c] = "fallback"
    /\ (SubmitAnswered \/ droppedRequests' # droppedRequests) =>
          \E c \in Callers : pc[c] \in {"fallback", "submit"} /\ pc'[c] = "idle"

C26_ChannelFirst == [][AsyncTierStep]_vars

\* two calls were made: the first queued its signal, the second found the
\* channel full and its task runs on the pool
C26_Witness ==
    /\ sendsLeft = StressSends - 2
    /\ metricsChan = MetricBufferSize
    /\ poolWaiting = 1
    /\ pc[Worker] = "select"
    /\ droppedRequests = 0
    /\ \A c \in Callers : pc[c] = "idle"

(***************************************************************************)
(* Frame of a rate-limited trigger (SpecRate).                             *)
(***************************************************************************)
\* process p makes its rate-limit check in this step
Checks(p) == pc[p] = "lock" /\ pc'[p] # "lock"

\* C27: a trigger that is rate limited (less than MinSendInterval since
\* lastMetricsSent) makes no exporter call, reports no error and leaves
\* lastMetricsSent as it was; so a trigger that comes MinSendInterval or more
\* after the last flush began is not rate limited, whatever was suppressed
\* in between.
SuppressedStep ==
    \A p \in Procs :
        Checks(p) =>
            IF now - lastMetricsSent < MinSendInterval
            THEN /\ pc'[p] # "flush"
                 /\ lastMetricsSent' = lastMetricsSent
                 /\ flushCalls' = flushCalls /\ flushArrs' = flushArrs
                 /\ metricsMutex' = Nil
                 /\ p \in Callers => aErr'[p] = "nil"
                 /\ lastSend' = "skipped"
            ELSE /\ pc'[p] = "flush"
                 /\ lastMetricsSent' = now
                 /\ flushCalls' = flushCalls + 1

C27_SuppressedChangesNothing == [][SuppressedStep]_vars

\* after a first flush at time 0 a trigger was suppressed, and a trigger at
\* MinSendInterval has passed the check: its flush is in progress
C27_Witness ==
    /\ flushCalls = 2
    /\ flushArrs[1] = 0
    /\ lastSend = "skipped"
    /\ lastMetricsSent = MinSendInterval
    /\ \E p \in Procs : pc[p] = "flush"

(***************************************************************************)
(* Retry after a failed flush (SpecRate).                                  *)
(***************************************************************************)
\* C28: after a ForceFlush that returned an error, the next trigger to make
\* its check (a signal, a tick or a SendMetricsSync call) calls ForceFlush
\* again.
RetryStep ==
    (lastSend = "failed" /\ \E p \in Procs : Checks(p))
        => flushCalls' = flushCalls + 1

C28_RetryOnNextTrigger == [][RetryStep]_vars

(***************************************************************************)
(* The three instrument maps and the cache hit (SpecKinds).                *)
(***************************************************************************)
\* the map of kind changes in this step
MapChanges(kind) == RegMap(kind)' # RegMap(kind)

\* C29: the three maps are independent.  The map of a kind changes only in
\* the step of a GetOrCreate call of that kind that stores its new
\* primitive, and that step adds the call's key and changes nothing else;
\* every map holds primitives of its own kind, each built by its own
\* exporter Create; and every successful call returns a primitive of the
\* kind it asked for, so one name and label set can be a counter, a gauge
\* and a histogram at once.
C29_MapsIndependent ==
    /\ [](\A kind \in Kinds : \A k \in DOMAIN RegMap(kind) :
            /\ prims[RegMap(kind)[k]].kind = kind
            /\ prims[RegMap(kind)[k]].otel = RegMap(kind)[k])
    /\ [](\A g \in Goroutines :
            Succeeded(g) => prims[rRet[g].prim].kind = rArgs[g].op)
    /\ [][\A kind \in Kinds :
            MapChanges(kind) =>
                /\ \E g \in Goroutines :
                      /\ rPc[g] = "create" /\ rPc'[g] = "idle"
                      /\ rArgs[g].op = kind
                      /\ RegMap(kind)' = Put(RegMap(kind), rKey[g], Len(prims'))
                      /\ Len(prims') = Len(prims) + 1
                /\ \A other \in Kinds \ {kind} : ~MapChanges(other)]_vars

\* the same key is registered as a counter, a gauge and a histogram, with
\* three primitives
C29_Witness ==
    \E k \in DOMAIN counters :
        /\ k \in DOMAIN gauges /\ k \in DOMAIN histograms
        /\ Cardinality({counters[k], gauges[k], histograms[k]}) = 3
        /\ Len(prims) = 3

\* the call of g finds its key in the map at one of its two lookups
Hits(g) == rPc[g] \in {"rcheck", "wcheck"} /\ rKey[g] \in DOMAIN RegMap(rArgs[g].op)

\* C30: a GetOrCreate call that finds its key in the map returns the stored
\* primitive and a nil error at that lookup, has made no exporter call, and
\* leaves the maps and the stored primitives (with the unit they were
\* created with) unchanged, whatever unit or bucket list it passed.
HitStep ==
    \A g \in Goroutines :
        (Hits(g) /\ rPc'[g] # rPc[g]) =>
            /\ rPc'[g] = "idle"
            /\ rRet'[g] = [done |-> TRUE, prim |-> RegMap(rArgs[g].op)[rKey[g]],
                           err |-> "nil"]
            /\ rEff'[g].creates = 0 /\ rEff'[g].inserts = 0
            /\ prims' = prims
            /\ AllMaps' = AllMaps

C30_CacheHit == [][HitStep]_vars

\* a call passing another unit than the primitive was created with has
\* returned that primitive without an exporter call
C30_Witness ==
    \E g \in Goroutines :
        /\ Succeeded(g)
        /\ rEff[g].creates = 0
        /\ prims[rRet[g].prim].unit # rArgs[g].unit
        /\ Len(prims) = 1

(***************************************************************************)
(* The bucket limit of GetOrCreateHistogram (SpecBuckets).                 *)
(***************************************************************************)
\* the call of g has returned ErrHistBucketSizeTooLarge
BucketError(g) == rRet[g].done /\ rRet[g].err = "ErrHistBucketSizeTooLarge"

\* C31: GetOrCreateHistogram returns the too-many-buckets error exactly when
\* len(buckets) > 20 (20 and 0 pass), and the test comes before the lookup:
\* the call returns the error and nil at once, with no lookup and no
\* exporter call, whether or not its key is registered.
C31_BucketLimit ==
    \A g \in Goroutines :
        rArgs[g].op = "histogram" =>
            /\ BucketError(g) <=> rArgs[g].buckets > MaxBuckets
            /\ BucketError(g) =>
                  /\ rRet[g].prim = Nil
                  /\ rEff[g] = NoEff
                  /\ rPc[g] = "idle"
            /\ rRet[g].done /\ ~BucketError(g) =>
                  rRet[g].err \in {"nil", "ErrCreatingMetric"}

\* a histogram created with exactly 20 buckets is registered, and a call
\* with 21 buckets for the same key has returned the error
C31_Witness ==
    \E g, h \in Goroutines :
        /\ Succeeded(g) /\ rArgs[g].buckets = MaxBuckets /\ rEff[g].creates = 1
        /\ BucketError(h) /\ rArgs[h].buckets = MaxBuckets + 1
        /\ DOMAIN histograms = metricKey(rArgs[h].name, rArgs[h].labels)

(***************************************************************************)
(* A registry built with a nil exporter client, and the registry lock      *)
(* (SpecClient).                                                           *)
(***************************************************************************)
\* the call of g has ended in a panic
Panicked(g) == rRet[g].done /\ rRet[g].err = "panic"

\* the GetOrCreate call of g has ended, past the bucket guard
EndedLookup(g) ==
    /\ rRet[g].done
    /\ rArgs[g].op \in Kinds
    /\ ~TooManyBuckets(rArgs[g].buckets)

\* C32: on a registry built with a nil exporter client, GetOrCreateCounter,
\* GetOrCreateGauge and GetOrCreateHistogram (with at most 20 buckets) panic
\* on a cache miss: they return neither a primitive nor an error, and, no
\* primitive ever being stored, every such call is a miss.
C32_NilClientPanics ==
    otelClient = Nil =>
        /\ \A g \in Goroutines :
              EndedLookup(g) =>
                  /\ Panicked(g)
                  /\ rEff[g].missed
                  /\ rRet[g].prim = Nil
        /\ prims = <<>>
        /\ AllMaps = <<NoLabels, NoLabels, NoLabels>>

\* one call has panicked on the nil client and, the three calls issued, the
\* others are a call of another kind that panicked and one past the lookup
C32_Witness ==
    /\ otelClient = Nil
    /\ callsLeft = 0
    /\ \E g, h \in Goroutines :
          /\ Panicked(g) /\ Panicked(h)
          /\ rArgs[g].op = "counter" /\ rArgs[h].op = "histogram"
          /\ rArgs[h].buckets = MaxBuckets

\* goroutines holding the read lock, and those holding the write lock
ReadHolders == {g \in Goroutines : rPc[g] = "rcheck"}
WriteHolders == {g \in Goroutines : rPc[g] \in {"wcheck", "create", "closing"}}

\* C33: the registry lock is never leaked: the read lock is held only by
\* calls at their first lookup and the write lock only by one call between
\* its Lock and its end, so a call that has ended (hit, creation, exporter
\* error or panic at the exporter's Create) holds neither, and while a call
\* is under way some call can take a step: no GetOrCreate or Close call
\* waits for the lock forever.
C33_LockNotLeaked ==
    /\ regMutex.readers = Cardinality(ReadHolders)
    /\ regMutex.writer <=> WriteHolders # {}
    /\ Cardinality(WriteHolders) <= 1
    /\ (\E g \in Goroutines : rPc[g] # "idle") => ENABLED NextClient

\* a call has ended in a panic at the exporter's Create, and the other
\* goroutine has taken the write lock after it
C33_Witness ==
    \E g, h \in Goroutines :
        /\ Panicked(g) /\ rPc[g] = "idle"
        /\ rPc[h] \in {"create", "closing"}
        /\ regMutex.writer

(***************************************************************************)
(* The registry after Close (SpecReuse).                                   *)
(***************************************************************************)
\* the step in which the owner's call stores and returns a primitive
CreatesNow == rPc[Owner] = "create" /\ rRet'[Owner].done /\ rRet'[Owner].err = "nil"

\* the step in which Close returns nil
ClosesNow == rPc[Owner] = "closing" /\ rRet'[Owner].done /\ rRet'[Owner].err = "nil"

\* a creating step calls the exporter once and returns a primitive that did
\* not exist, starting at 0; the primitives built before, and the counter
\* first returned, are left as they were
RecreateStep ==
    CreatesNow =>
        /\ rEff'[Owner].creates = 1
        /\ rRet'[Owner].prim \notin DOMAIN prims
        /\ prims'[rRet'[Owner].prim].value = 0
        /\ counters'[rKey[Owner]] = rRet'[Owner].prim
        /\ \A p \in DOMAIN prims : prims'[p] = prims[p]
        /\ UNCHANGED cntVars

\* a successful Close leaves no key registered and touches no primitive
ForgetStep ==
    ClosesNow =>
        /\ AllMaps' = <<NoLabels, NoLabels, NoLabels>>
        /\ UNCHANGED <<prims, cntVars>>

\* C34: the registry stays usable after Close and keeps no closed state: a
\* successful Close empties the maps and touches no primitive, calls are
\* accepted after it, a GetOrCreateCounter call that finds its key absent
\* (as after Close) calls CreateCounter and returns a new primitive,
\* distinct from every older one, starting at 0, and the old primitive
\* still accepts Add.
C34_UsableAfterClose ==
    /\ [][RecreateStep /\ ForgetStep]_vars
    /\ [](closeCalls >= 1 /\ rPc[Owner] = "idle" /\ callsLeft > 0 =>
            ENABLED GetOrCreate(Owner, "counter", "n", "requests", NoLabels, 0))
    /\ [](closeCalls >= 1 /\ Len(prims) >= 1 /\ GoroutineIdle(Updater) /\ addsLeft > 0 =>
            ENABLED OldAdd(Updater, 1))
    /\ [](Succeeded(Owner) /\ rEff[Owner].creates = 0 =>
            \A k \in metricKey(rArgs[Owner].name, rArgs[Owner].labels) :
                rRet[Owner].prim = counters[k])

\* the key was registered, Close succeeded, the call that followed has
\* returned a second primitive, and Add is under way on the first one,
\* whose value is not 0
C34_Witness ==
    /\ closeCalls = 1
    /\ Len(prims) = 2
    /\ Succeeded(Owner) /\ rRet[Owner].prim = 2 /\ rEff[Owner].creates = 1
    /\ callsLeft = 0
    /\ prims[2].value = 0
    /\ value > 0
    /\ cPc[Updater] = "forward"

(***************************************************************************)
(* The labels of a primitive and the caller's map (SpecLabels).            *)
(***************************************************************************)
\* C35: a primitive's labels are immutable after creation: whatever the
\* caller does to the map it passed once the call has returned, the labels
\* a primitive holds (and forwards) stay those given at creation, and the
\* key a primitive is registered under stays a key of its name and labels.
C35_LabelsImmutable ==
    /\ [][\A p \in DOMAIN prims : prims'[p].labels = prims[p].labels]_vars
    /\ [](\A k \in DOMAIN counters :
            k \in metricKey(prims[counters[k]].name, prims[counters[k]].labels))

(***************************************************************************)
(* SendMetricsAsync after Close has returned (Spec).                       *)
(***************************************************************************)
\* Close has returned
Closed == pc[Closer] = "closed"

\* a caller enters SendMetricsAsync in this step
CallsAsync == sendsLeft' = sendsLeft - 1

\* caller c leaves the select's default branch in this step
LeavesFallback(c) == pc[c] = "fallback" /\ pc'[c] # "fallback"

\* after Close: a call that finds room queues one signal and returns; one
\* that does not goes to the pool, which rejects it at once: the call
\* returns with droppedRequests one higher and no task started
AfterCloseStep ==
    Closed =>
        /\ CallsAsync /\ metricsChan < MetricBufferSize =>
              /\ metricsChan' = metricsChan + 1
              /\ UNCHANGED <<pc, droppedRequests>>
        /\ CallsAsync /\ metricsChan >= MetricBufferSize =>
              /\ \E c \in Callers : pc[c] = "idle" /\ pc' = [pc EXCEPT ![c] = "fallback"]
              /\ UNCHANGED <<metricsChan, droppedRequests>>
        /\ \A c \in Callers :
            LeavesFallback(c) =>
                  /\ pc'[c] = "idle"
                  /\ droppedRequests' = droppedRequests + 1
                  /\ poolRejected' = poolRejected + 1
                  /\ UNCHANGED <<metricsChan, poolWaiting>>

\* once the worker has exited nothing takes a signal out of the channel
NeverConsumedStep == pc[Worker] \in {"exit", "off"} => metricsChan' >= metricsChan

\* C36: after Close has returned, SendMetricsAsync neither panics nor
\* blocks: it queues a signal while the channel has room, and otherwise
\* counts exactly one dropped request because the released pool rejects the
\* task; a caller that was waiting in Submit when the pool was released can
\* return, and signals in the channel once the worker has exited stay there.
C36_AsyncAfterClose ==
    /\ [][AfterCloseStep /\ NeverConsumedStep]_vars
    /\ [](Closed => /\ poolClosed
                    /\ \A c \in Callers : pc[c] = "submit" => SubmitCanReturn
                    /\ metricsChan <= MetricBufferSize)

\* Close has returned and the worker has exited; a signal queued since sits
\* in the full channel, one call has been dropped and another is at the pool
C36_Witness ==
    /\ Closed
    /\ pc[Worker] = "exit"
    /\ metricsChan = MetricBufferSize
    /\ droppedRequests >= 1
    /\ \E c \in Callers : pc[c] = "fallback"

(***************************************************************************)
(* The pool capacity chosen by New (SpecNew).                              *)
(***************************************************************************)
\* C37: the pool New builds has capacity 10 when MetricBufferSize <= 10 and
\* floor(MetricBufferSize / 10) otherwise: at least 1 for every
\* configuration Validate accepts (MetricBufferSize > 0), and not monotonic
\* (10 workers for a buffer of 10, 1 for buffers of 11 to 19).  New builds
\* no pool for a configuration Validate rejects.
C37_PoolCapacity ==
    /\ newPc = "done" =>
          /\ cfgBufferSize > 0
          /\ poolCap >= 1
          /\ cfgBufferSize <= 10 => poolCap = 10
          /\ cfgBufferSize > 10 =>
                /\ 10 * poolCap <= cfgBufferSize
                /\ cfgBufferSize < 10 * (poolCap + 1)
          /\ cfgBufferSize \in 11..19 => poolCap = 1
    /\ newPc = "error" => cfgBufferSize <= 0 /\ poolCap = 0
    /\ newPc \in {"validate", "pool"} => poolCap = 0

\* New has built a pool of one worker for a buffer of 19
C37_Witness == newPc = "done" /\ cfgBufferSize = 19 /\ poolCap = 1

(***************************************************************************)
(* The order of a gauge's exporter calls (SpecGauge).                      *)
(***************************************************************************)
\* all calls on the gauge have returned
GaugeQuiet == \A g \in Goroutines : gPc[g] = "idle"

\* C38: the values a gauge forwards to its exporter are its successive local
\* values, in the order the mutations were applied: each mutation starts
\* from the value the one before left, the k-th exporter call carries the
\* value the k-th mutation left, at most the latest mutation is not yet
\* forwarded, and once every Set, Add, Inc and Dec call has returned the
\* last value forwarded is the gauge's local value.
C38_ForwardedInOrder ==
    /\ \A i \in 1..(Len(gLog) - 1) : gLog[i + 1].old = gLog[i].new
    /\ Len(gLog) > 0 => gLog[Len(gLog)].new = gValue
    /\ otelGauge # Nil =>
          /\ Len(otelSets) \in {Len(gLog) - 1, Len(gLog)}
          /\ \A i \in 1..Len(otelSets) : otelSets[i].value = gLog[i].new
          /\ GaugeQuiet =>
                /\ Len(otelSets) = Len(gLog)
                /\ Len(otelSets) > 0 => otelSets[Len(otelSets)].value = gValue

\* both goroutines have mutated the gauge, every call has returned, and the
\* exporter has been given three values, the first of them not the last
C38_Witness ==
    /\ otelGauge # Nil
    /\ GaugeQuiet
    /\ gOpsLeft = 0
    /\ Len(otelSets) >= 3
    /\ otelSets[1].value # otelSets[Len(otelSets)].value
    /\ \A g \in Goroutines : gArg[g].op # "none"

(***************************************************************************)
(* The rate limit of the HTTP server example (SpecServer).                 *)
(***************************************************************************)
\* C39: sendMetricsSync of the HTTP server example never sends more often
\* than once per millisecond: every SendMetrics call starts at least 1 ms
\* after the time recorded for the last successful send, and
\* lastMetricsSent is written only when a SendMetrics call has succeeded.
C39_OncePerMillisecond ==
    /\ [](\A i \in 1..Len(srvSent) : srvSent[i].at - srvSent[i].last >= Millisecond)
    /\ [][srvLast' # srvLast =>
            /\ \E g \in Goroutines : srvPc[g] = "send" /\ srvPc'[g] = "idle"
            /\ srvLast' = srvNow]_vars

(***************************************************************************)
(* Queued signals and the worker (SpecSignal).                             *)
(***************************************************************************)
\* C40: with the worker started, every SendMetricsAsync call that queues a
\* signal is eventually followed by a sendMetricsWithRateLimit call of the
\* worker (for that signal, a tick or the cancellation): no queued signal
\* stays unhandled forever.
C40_SignalHandled == sigPending ~> ~sigPending

====
